---- MODULE Spec2Model ----
(***************************************************************************)
(* The Yjs echo WebSocket relay of jupyterlab/handlers/yjs_echo_ws.py:     *)
(* the process-wide room table ROOMS, the YjsRoom objects, one             *)
(* YjsEchoWebSocket handler per connection, the IOLoop callback queue used *)
(* for the fan-out, the debounced save task of every handler, and the      *)
(* varint framing of the sync messages.                                    *)
(***************************************************************************)
EXTENDS Integers, Sequences, FiniteSets, TLC

(***************************************************************************)
(* Bounds of the model.                                                    *)
(***************************************************************************)
\* inbound frames handled in one behaviour of the relay, the fan-out and the
\* save scenarios
MaxFrames == 3
MaxFanFrames == 2
MaxSaveFrames == 3
MaxErrFrames == 2
MaxSaveFailFrames == 2
MaxSyncFrames == 2
MaxKindFrames == 2
MaxLastFrames == 2
\* list_packages calls in one behaviour, and the clock ticks it lasts
MaxListCalls == 3
MaxNow == 4
\* build() and cancel() calls in one behaviour
MaxBuilderCalls == 4
\* largest integer (beyond the listed boundary values) given to the varint codec
MaxVarint == 300
MaxParts == 3
LongPart == 130

(***************************************************************************)
(* Values.                                                                 *)
(***************************************************************************)
\* the handler objects; a handler's id (uuid4) is modelled by the handler itself
Conns == {"c1", "c2", "c3"}

\* Python's None
None == "None"

\* bytes of ":" and of the strings used as document kinds and paths
Colon == 58
KindFile == <<102, 105, 108, 101>>
KindNotebook == <<110, 111, 116, 101, 98, 111, 111, 107>>
Kinds == {KindFile, KindNotebook}
PathA == <<97>>
PathB == <<98>>
Paths == {PathA, PathB}

\* class ServerMessageType
REQUEST_INITIALIZED_CONTENT == 127
PUT_INITIALIZED_CONTENT == 126
RENAME_SESSION == 125
CONTENT_SAVED == 124

message_yjs_sync_step1 == 0
message_yjs_sync_step2 == 1
message_yjs_update == 2

\* asyncio.sleep(1) of save_document, in ticks of the model's clock
SaveDelay == 1

(***************************************************************************)
(* Sequence helpers (Python slicing and str.split).                        *)
(***************************************************************************)
\* message[i0:i1] with 0-based, end-exclusive indices, clipped like Python
Slice(s, i0, i1) ==
  LET hi == IF i1 > Len(s) THEN Len(s) ELSE i1
  IN IF i0 >= hi THEN <<>> ELSE SubSeq(s, i0 + 1, hi)

\* message[1:]
Rest(s) == Slice(s, 1, Len(s))

\* index (1-based) of the first ":" of s, 0 when there is none
FirstColon(s) ==
  IF \E i \in 1..Len(s) : s[i] = Colon
  THEN CHOOSE i \in 1..Len(s) : s[i] = Colon /\ \A j \in 1..(i - 1) : s[j] # Colon
  ELSE 0

\* s.split(":", 1): one or two parts
SplitColon(s) ==
  LET i == FirstColon(s)
  IN IF i = 0 THEN <<s>> ELSE <<SubSeq(s, 1, i - 1), SubSeq(s, i + 1, Len(s))>>

\* the connection target "<kind>:<path>"
Target(kind, path) == kind \o <<Colon>> \o path

(***************************************************************************)
(* Varint framing.                                                         *)
(***************************************************************************)
\* num >> 7 and 127 & num on non-negative integers
Shr7(num) == num \div 128
Low7(num) == num % 128

\* the encoder with the loop test num > 128
RECURSIVE WriteVarUintAbove128(_)
WriteVarUintAbove128(num) ==
  IF num > 128
  THEN <<128 + Low7(num)>> \o WriteVarUintAbove128(Shr7(num))
  ELSE <<num>>

RECURSIVE write_var_uint(_)
write_var_uint(num) ==
  IF num > 127
  THEN <<128 + Low7(num)>> \o write_var_uint(Shr7(num))
  ELSE <<num>>

RECURSIVE Pow2(_)
Pow2(i) == IF i = 0 THEN 1 ELSE 2 * Pow2(i - 1)

\* the inner loop of get_message: reads one varint of message from 0-based
\* offset i0; shift is i, acc is msg_len. IndexError when message[i0] is
\* read past the end.
RECURSIVE read_var_uint(_, _, _, _)
read_var_uint(message, i0, shift, acc) ==
  IF i0 >= Len(message)
  THEN [err |-> "IndexError", value |-> acc, i0 |-> i0]
  ELSE LET byte == message[i0 + 1]
           msg_len == acc + (byte % 128) * Pow2(shift)
       IN IF byte < 128
          THEN [err |-> "", value |-> msg_len, i0 |-> i0 + 1]
          ELSE read_var_uint(message, i0 + 1, shift + 7, msg_len)

\* the generator get_message: the sub-messages it yields, in order, and the
\* exception that ends the iteration ("" when it ends normally). i0 and length
\* are the loop's variables.
RECURSIVE get_message_from(_, _, _)
get_message_from(message, i0, length) ==
  LET v == read_var_uint(message, i0, 0, 0)
  IN IF v.err # ""
     THEN [msgs |-> <<>>, err |-> v.err]
     ELSE LET i1 == v.i0 + v.value
              msg == Slice(message, v.i0, i1)
              left == length - (v.i0 - i0) - v.value
          IN IF left <= 0
             THEN [msgs |-> <<msg>>, err |-> IF left < 0 THEN "RuntimeError" ELSE ""]
             ELSE LET more == get_message_from(message, i1, left)
                  IN [msgs |-> <<msg>> \o more.msgs, err |-> more.err]

get_message(message) == get_message_from(message, 0, Len(message))

(***************************************************************************)
(* The CRDT document behind a room (y_py and jupyter_ydoc), as far as the  *)
(* handler observes it: the dirty flag, the source it renders to (0 when   *)
(* it cannot be rendered yet) and whether an update can be applied.        *)
(* An update is one byte: 1 or 2 set the source to that value and the      *)
(* dirty flag, 3 clears the dirty flag, 4 sets the dirty flag only; every  *)
(* other byte string is refused by Y.apply_update.                         *)
(***************************************************************************)
NoSource == 0
Sources == {1, 2}

NewYDoc(type) ==
  [cls |-> IF type = KindNotebook THEN "notebook" ELSE "file",
   dirty |-> FALSE, source |-> NoSource]

UpdateOk(update) == Len(update) = 1 /\ update[1] \in 1..4

apply_update(doc, update) ==
  LET u == update[1]
  IN IF u \in Sources THEN [doc EXCEPT !.source = u, !.dirty = TRUE]
     ELSE IF u = 3 THEN [doc EXCEPT !.dirty = FALSE]
     ELSE [doc EXCEPT !.dirty = TRUE]

\* Y.encode_state_as_update(doc, encoded_state_vector): what the peer lacks
encode_state_as_update(doc, sv) ==
  IF doc.source = NoSource \/ sv = <<doc.source>> THEN <<>> ELSE <<doc.source>>

\* json.dumps(source, indent=2): a text different from every raw source
JsonDumps(source) == 10 + source

(***************************************************************************)
(* State.                                                                  *)
(***************************************************************************)
VARIABLES
  ROOMS,      \* the module's room table: path -> room object, or None
  room,       \* the YjsRoom objects the table refers to, by identity
  st,         \* per handler: "connecting", "open", "failed" (on_message raised
              \* and the transport is aborted), "closed"
  room_id,    \* per handler: self.room_id
  saving,     \* per handler: self.saving_document and the task it refers to
  callbacks,  \* the IOLoop's queue of loop.add_callback(hook_send_message, message)
  outbox,     \* per handler: the frames write_message has sent to its client
  files,      \* the storage: path -> content
  nframes,    \* inbound frames handled so far
  ev,         \* the handler invocation that led to this state
  codec,      \* the varint codec at work on one input: the integer, its
              \* encoding and what the decoder made of it; or the byte
              \* strings to frame, their framing and what get_message yields
  hist        \* per handler: clock ticks since the last sync frame that is to
              \* schedule a save, whether that save is still owed, and whether
              \* a write began that was not owed or not one delay after it,
              \* whether a frame of the handler had an update refused, and
              \* whether a save of the handler ended in a storage error;
              \* per room (named by the handler that created it): the payload
              \* of the last put-initial-content frame handled in it

\* PyPiExtensionManager (extensions/pypi.py)
VARIABLES
  __all_packages_cache,              \* self.__all_packages_cache
  __last_all_packages_request_time,  \* self.__last_all_packages_request_time
  now,        \* datetime.now(), in clock ticks
  tasks,      \* per list_packages call: where the coroutine stands and how
              \* it ended
  ncalls,     \* list_packages calls made so far
  rpc         \* the requests for the list of candidates that were answered
              \* with a list: when each was begun and when it was answered

\* Builder (handlers/build_handler.py)
VARIABLES
  building,   \* self.building
  canceled,   \* self.canceled
  _canceling, \* self._canceling
  _future,    \* self._future: the gen.Future of the last build, or None
  futures,    \* the gen.Future objects made so far, by identity: pending,
              \* or done with a result or with an exception
  calls,      \* per caller: the build() or cancel() coroutine it runs (the
              \* n-th call made), where it stands and how it ended
  nbuilds     \* build() and cancel() calls made so far

yjsVars == <<ROOMS, room, st, room_id, saving, callbacks, outbox, files, nframes, ev,
             hist, codec>>
pypiVars == <<__all_packages_cache, __last_all_packages_request_time, now, tasks,
              ncalls, rpc>>
builderVars == <<building, canceled, _canceling, _future, futures, calls, nbuilds>>

vars == <<yjsVars, pypiVars, builderVars>>

NoFile == 0 - 1
EmptyFile == 0

NoTask == [st |-> "none", source |-> NoSource, elapsed |-> 0, path |-> <<>>]
NoHist == [since |-> 0, owed |-> FALSE, bad |-> FALSE, put |-> <<>>, refused |-> FALSE,
           failed |-> FALSE]
Idle == [pc |-> "idle", n |-> 0, bytes |-> <<>>, value |-> 0, i0 |-> 0, err |-> "",
         parts |-> <<>>, msgs |-> <<>>]

Event(op, c, m, exc) == [op |-> op, c |-> c, m |-> m, exc |-> exc]

\* ROOMS.get(key), ROOMS[key] = value, del ROOMS[key]
Get(RS, key) == IF key \in DOMAIN RS THEN RS[key] ELSE None
Put(RS, key, value) == [k \in DOMAIN RS \cup {key} |-> IF k = key THEN value ELSE RS[k]]
Del(RS, key) == [k \in DOMAIN RS \ {key} |-> RS[k]]

\* the room objects still referred to by the table (the others are garbage)
Live(RS, heap) ==
  [r \in {x \in DOMAIN heap : \E k \in DOMAIN RS : RS[k] = x} |-> heap[r]]

\* dict.pop(key) on the insertion-ordered clients dict
RECURSIVE Without(_, _)
Without(s, x) ==
  IF s = <<>> THEN <<>>
  ELSE IF Head(s) = x THEN Without(Tail(s), x)
  ELSE <<Head(s)>> \o Without(Tail(s), x)

Members(s) == {s[i] : i \in 1..Len(s)}

\* write_message succeeds on a handler whose transport is open
Writable(c) == st[c] = "open"

\* PyPiExtensionManager.__init__: no list cached, and a last request time
\* more than one cache_timeout in the past
Tasks == {"t1", "t2"}
CacheTimeout == 2
NoFault == [faultCode |-> 0, faultString |-> [prefix |-> "", reset |-> 0]]
IdleTask == [pc |-> "idle", recursive |-> FALSE, began |-> 0, wake |-> 0,
             result |-> None, exc |-> "", fault |-> NoFault, raised |-> NoFault]

PyPiInit ==
  /\ __all_packages_cache = None
  /\ now = 0
  /\ __last_all_packages_request_time = 0 - (CacheTimeout + 1)
  /\ tasks = [t \in Tasks |-> IdleTask]
  /\ ncalls = 0
  /\ rpc = <<>>

\* class Builder: the class attributes
Callers == {"p1", "p2", "p3"}
NoFuture == 0
IdleCall == [op |-> "none", n |-> 0, pc |-> "idle", fut |-> NoFuture, exc |-> ""]

BuilderInit ==
  /\ building = FALSE
  /\ canceled = FALSE
  /\ _canceling = FALSE
  /\ _future = NoFuture
  /\ futures = <<>>
  /\ calls = [p \in Callers |-> IdleCall]
  /\ nbuilds = 0

Init ==
  /\ ROOMS = <<>>
  /\ room = <<>>
  /\ st = [c \in Conns |-> "connecting"]
  /\ room_id = [c \in Conns |-> None]
  /\ saving = [c \in Conns |-> NoTask]
  /\ callbacks = <<>>
  /\ outbox = [c \in Conns |-> <<>>]
  /\ files = [p \in Paths |-> NoFile]
  /\ nframes = 0
  /\ ev = Event("init", None, <<>>, "")
  /\ hist = [c \in Conns |-> NoHist]
  /\ codec = Idle
  /\ PyPiInit
  /\ BuilderInit

(***************************************************************************)
(* YjsEchoWebSocket.open                                                   *)
(***************************************************************************)
YjsRoom(type) ==
  [type |-> type, clients |-> <<>>, content |-> <<>>, ydoc |-> NewYDoc(type)]

\* a handshake without the length byte of the state vector
HelloWithoutLength == <<0, 0, 0>>

\* the handshake frame of open
SyncStep1Hello == <<0, 0, 1, 0>>

\* the open that gives the room an adapter of the kind of the connection
\* that joins it
OpenRoomsRebuilds(c, type, path) ==
  LET old == Get(ROOMS, path)
      r == IF old # None THEN old ELSE c
      heap == IF old # None
              THEN [room EXCEPT ![old].type = type, ![old].ydoc = NewYDoc(type)]
              ELSE [x \in DOMAIN room \cup {c} |-> IF x = c THEN YjsRoom(type) ELSE room[x]]
  IN [ROOMS |-> Put(ROOMS, path, r),
      room |-> [heap EXCEPT ![r].clients = Append(Without(@, c), c)]]

\* self.room = self.room or YjsRoom(type), then the registration of self:
\* the new table and heap
OpenRooms(c, type, path) ==
  LET old == Get(ROOMS, path)
      r == IF old # None THEN old ELSE c
      heap == IF old # None THEN room
              ELSE [x \in DOMAIN room \cup {c} |-> IF x = c THEN YjsRoom(type) ELSE room[x]]
  IN [ROOMS |-> Put(ROOMS, path, r),
      room |-> [heap EXCEPT ![r].clients = Append(Without(@, c), c)]]

open(c, type_path) ==
  LET parts == SplitColon(type_path)
      type == parts[1]
      path == parts[2]
      o == OpenRooms(c, type, path)
  IN /\ st[c] = "connecting"
     /\ ROOMS' = o.ROOMS
     /\ room' = Live(o.ROOMS, o.room)
     /\ st' = [st EXCEPT ![c] = "open"]
     /\ room_id' = [room_id EXCEPT ![c] = path]
     /\ saving' = [saving EXCEPT ![c] = NoTask]
     /\ outbox' = [outbox EXCEPT ![c] = Append(@, SyncStep1Hello)]
     /\ ev' = Event("open", c, type_path, "")
     /\ hist' = IF Get(ROOMS, path) = None THEN [hist EXCEPT ![c].put = <<>>] ELSE hist
     /\ UNCHANGED <<callbacks, files, nframes, codec, pypiVars, builderVars>>

(***************************************************************************)
(* YjsEchoWebSocket.on_close                                               *)
(***************************************************************************)
\* on_close without the removal of the emptied room
CloseRoomsKeepsEmpty(c) ==
  LET r == Get(ROOMS, room_id[c])
  IN IF r = None
     THEN [ROOMS |-> ROOMS, room |-> room, exc |-> "AttributeError"]
     ELSE IF c \notin Members(room[r].clients)
     THEN [ROOMS |-> ROOMS, room |-> room, exc |-> "KeyError"]
     ELSE [ROOMS |-> ROOMS, room |-> [room EXCEPT ![r].clients = Without(@, c)],
           exc |-> ""]

\* the table, the heap and the exception on_close ends with
CloseRooms(c) ==
  LET r == Get(ROOMS, room_id[c])
  IN IF r = None
     THEN [ROOMS |-> ROOMS, room |-> room, exc |-> "AttributeError"]
     ELSE IF c \notin Members(room[r].clients)
     THEN [ROOMS |-> ROOMS, room |-> room, exc |-> "KeyError"]
     ELSE LET heap == [room EXCEPT ![r].clients = Without(@, c)]
          IN IF heap[r].clients = <<>>
             THEN [ROOMS |-> Del(ROOMS, room_id[c]), room |-> heap, exc |-> ""]
             ELSE [ROOMS |-> ROOMS, room |-> heap, exc |-> ""]

\* the close that cancels the handler's save task
OnCloseCancelsSave(c) ==
  LET o == CloseRooms(c)
  IN /\ st[c] \in {"open", "failed"}
     /\ ROOMS' = o.ROOMS
     /\ room' = Live(o.ROOMS, o.room)
     /\ st' = [st EXCEPT ![c] = "closed"]
     /\ saving' = [saving EXCEPT ![c] = NoTask]
     /\ ev' = Event("close", c, <<>>, o.exc)
     /\ UNCHANGED <<room_id, callbacks, outbox, files, nframes, hist, codec, pypiVars, builderVars>>

on_close(c) ==
  LET o == CloseRooms(c)
  IN /\ st[c] \in {"open", "failed"}
     /\ ROOMS' = o.ROOMS
     /\ room' = Live(o.ROOMS, o.room)
     /\ st' = [st EXCEPT ![c] = "closed"]
     /\ ev' = Event("close", c, <<>>, o.exc)
     /\ UNCHANGED <<room_id, saving, callbacks, outbox, files, nframes, hist, codec, pypiVars, builderVars>>

(***************************************************************************)
(* The sync protocol: read_sync_message, read_sync_step1, read_sync_step2  *)
(***************************************************************************)
\* the reply without the length of the update
Step2ReplyWithoutLength(doc, encoded_state_vector) ==
  <<message_yjs_sync_step2>> \o encode_state_as_update(doc, encoded_state_vector)

\* the reply frame of read_sync_step1
Step2Reply(doc, encoded_state_vector) ==
  LET message == encode_state_as_update(doc, encoded_state_vector)
  IN <<message_yjs_sync_step2>> \o write_var_uint(Len(message)) \o message

\* for msg in get_message(message): read_sync_step2(doc, msg) -- the document
\* after the sub-messages applied before the first failure
RECURSIVE ApplyEach(_, _)
ApplyEach(doc, msgs) ==
  IF msgs = <<>> THEN [doc |-> doc, exc |-> ""]
  ELSE IF ~UpdateOk(Head(msgs)) THEN [doc |-> doc, exc |-> "RuntimeError"]
  ELSE ApplyEach(apply_update(doc, Head(msgs)), Tail(msgs))

\* the reader that applies the sub-messages of Update frames only
ReadSyncMessageSkipsStep2(doc, message) ==
  IF Len(message) = 0
  THEN [doc |-> doc, out |-> <<>>, exc |-> "IndexError"]
  ELSE LET message_type == message[1]
           g == get_message(Rest(message))
       IN IF message_type = message_yjs_sync_step1
          THEN [doc |-> doc,
                out |-> [i \in 1..Len(g.msgs) |-> Step2Reply(doc, g.msgs[i])],
                exc |-> g.err]
          ELSE IF message_type = message_yjs_sync_step2
          THEN [doc |-> doc, out |-> <<>>, exc |-> g.err]
          ELSE IF message_type = message_yjs_update
          THEN LET a == ApplyEach(doc, g.msgs)
               IN [doc |-> a.doc, out |-> <<>>,
                   exc |-> IF a.exc # "" THEN a.exc ELSE g.err]
          ELSE [doc |-> doc, out |-> <<>>, exc |-> "RuntimeError"]

\* read_sync_message(handler, doc, message): the document afterwards, the
\* frames written to the handler, and the exception raised ("" for none)
read_sync_message(doc, message) ==
  IF Len(message) = 0
  THEN [doc |-> doc, out |-> <<>>, exc |-> "IndexError"]
  ELSE LET message_type == message[1]
           g == get_message(Rest(message))
       IN IF message_type = message_yjs_sync_step1
          THEN [doc |-> doc,
                out |-> [i \in 1..Len(g.msgs) |-> Step2Reply(doc, g.msgs[i])],
                exc |-> g.err]
          ELSE IF message_type \in {message_yjs_sync_step2, message_yjs_update}
          THEN LET a == ApplyEach(doc, g.msgs)
               IN [doc |-> a.doc, out |-> <<>>,
                   exc |-> IF a.exc # "" THEN a.exc ELSE g.err]
          ELSE [doc |-> doc, out |-> <<>>, exc |-> "RuntimeError"]

(***************************************************************************)
(* YjsEchoWebSocket.maybe_save_document: the handler's save task afterwards *)
(***************************************************************************)
Pending(task) == task.st \in {"sleeping", "writing"}

\* A cancelled task takes no further step, and a finished one is not told
\* apart from no task.
\* the scheduling that does not look at whether the source could be
\* generated
MaybeSaveAnySource(rm, task) ==
  IF ~rm.ydoc.dirty THEN task
  ELSE [st |-> "sleeping",
        source |-> IF rm.type = KindNotebook
                   THEN JsonDumps(rm.ydoc.source) ELSE rm.ydoc.source,
        elapsed |-> 0, path |-> <<>>]

maybe_save_document(rm, task) ==
  IF ~rm.ydoc.dirty THEN task
  ELSE LET kept == IF Pending(task) THEN NoTask ELSE task
           source == rm.ydoc.source
       IN IF source = NoSource THEN kept
          ELSE [st |-> "sleeping",
                source |-> IF rm.type = KindNotebook THEN JsonDumps(source) ELSE source,
                elapsed |-> 0, path |-> <<>>]

(***************************************************************************)
(* YjsEchoWebSocket.on_message                                             *)
(***************************************************************************)
\* what one invocation leaves behind: the table, the heap, every handler's
\* room_id, the frames written to self, the callbacks added to the loop,
\* self's save task and the exception raised
Outcome(RS, heap, rid, out, cbs, task, exc) ==
  [ROOMS |-> RS, room |-> heap, room_id |-> rid, out |-> out, cbs |-> cbs,
   task |-> task, exc |-> exc]

Raise(c, RS, heap, out, exc) == Outcome(RS, heap, room_id, out, <<>>, saving[c], exc)

\* the loop over self.room.clients: one callback per other client, in the
\* dict's order
RECURSIVE Fanout(_, _, _)
Fanout(c, clients, message) ==
  IF clients = <<>> THEN <<>>
  ELSE IF Head(clients) # c
  THEN <<[to |-> Head(clients), msg |-> message]>> \o Fanout(c, Tail(clients), message)
  ELSE Fanout(c, Tail(clients), message)

RequestContent(c, r) ==
  IF r = None THEN Raise(c, ROOMS, room, <<>>, "AttributeError")
  ELSE Outcome(ROOMS, room, room_id,
               <<(<<REQUEST_INITIALIZED_CONTENT>> \o room[r].content)>>,
               <<>>, saving[c], "")

PutContent(c, r, message) ==
  IF r = None THEN Raise(c, ROOMS, room, <<>>, "AttributeError")
  ELSE Outcome(ROOMS, [room EXCEPT ![r].content = Rest(message)], room_id,
               <<>>, <<>>, saving[c], "")

RenameSession(c, r, message) ==
  LET parts == SplitColon(Rest(message))
  IN IF Len(parts) < 2 THEN Raise(c, ROOMS, room, <<>>, "IndexError")
     ELSE LET new_room_id == parts[2]
              RS1 == Put(ROOMS, new_room_id, r)
          IN IF room_id[c] \notin DOMAIN RS1
             THEN Raise(c, RS1, room, <<>>, "KeyError")
             ELSE LET RS2 == Del(RS1, room_id[c])
                      r2 == Get(RS2, room_id[c])
                  IN IF r2 = None
                     THEN Raise(c, RS2, room, <<>>, "AttributeError")
                     ELSE Outcome(RS2, room,
                                  [x \in Conns |->
                                     IF x \in Members(room[r2].clients)
                                     THEN new_room_id ELSE room_id[x]],
                                  <<(<<RENAME_SESSION, 1>>)>>, <<>>, saving[c], "")

\* the relay that reads every frame as a sync message
RelayReadsEveryFrame(c, r, message) ==
  LET s == read_sync_message(room[r].ydoc, Rest(message))
      heap == [room EXCEPT ![r].ydoc = s.doc]
  IN IF s.exc # ""
     THEN Raise(c, ROOMS, heap, s.out, s.exc)
     ELSE Outcome(ROOMS, heap, room_id, s.out,
                  Fanout(c, heap[r].clients, message),
                  maybe_save_document(heap[r], saving[c]), "")

\* the relay that queues the frame for the other clients before it reads it
RelayQueuesFirst(c, r, message) ==
  IF message[1] = 0
  THEN LET s == read_sync_message(room[r].ydoc, Rest(message))
           heap == [room EXCEPT ![r].ydoc = s.doc]
       IN Outcome(ROOMS, heap, room_id, s.out,
                  Fanout(c, heap[r].clients, message),
                  IF s.exc # "" THEN saving[c]
                  ELSE maybe_save_document(heap[r], saving[c]), s.exc)
  ELSE Outcome(ROOMS, room, room_id, <<>>,
               Fanout(c, room[r].clients, message), saving[c], "")

Relay(c, r, message) ==
  IF message[1] = 0
  THEN LET s == read_sync_message(room[r].ydoc, Rest(message))
           heap == [room EXCEPT ![r].ydoc = s.doc]
       IN IF s.exc # ""
          THEN Raise(c, ROOMS, heap, s.out, s.exc)
          ELSE Outcome(ROOMS, heap, room_id, s.out,
                       Fanout(c, heap[r].clients, message),
                       maybe_save_document(heap[r], saving[c]), "")
  ELSE Outcome(ROOMS, room, room_id, <<>>,
               Fanout(c, room[r].clients, message), saving[c], "")

OnMessage(c, message) ==
  LET r == Get(ROOMS, room_id[c])
  IN IF Len(message) = 0 THEN Raise(c, ROOMS, room, <<>>, "IndexError")
     ELSE IF message[1] = REQUEST_INITIALIZED_CONTENT THEN RequestContent(c, r)
     ELSE IF message[1] = PUT_INITIALIZED_CONTENT THEN PutContent(c, r, message)
     ELSE IF message[1] = RENAME_SESSION THEN RenameSession(c, r, message)
     ELSE IF r # None THEN Relay(c, r, message)
     ELSE Outcome(ROOMS, room, room_id, <<>>, <<>>, saving[c], "")

\* the registered room whose client map holds c, None when there is none
MemberRoom(heap, c) ==
  IF \E r \in DOMAIN heap : c \in Members(heap[r].clients)
  THEN CHOOSE r \in DOMAIN heap : c \in Members(heap[r].clients)
  ELSE None

\* a sync frame after which the document of c's room is dirty and renderable:
\* the frames that are to schedule a save
Schedules(c, message, res) ==
  LET heap == Live(res.ROOMS, res.room)
      r == MemberRoom(heap, c)
  IN /\ Len(message) > 0
     /\ message[1] = 0
     /\ res.exc = ""
     /\ r # None
     /\ heap[r].ydoc.dirty
     /\ heap[r].ydoc.source # NoSource

\* a put-initial-content frame handled without error on a client of a room
Puts(c, message, res) ==
  /\ Len(message) > 0
  /\ message[1] = PUT_INITIALIZED_CONTENT
  /\ res.exc = ""
  /\ MemberRoom(room, c) # None

\* a sync frame of type SyncStep2 or Update one of whose sub-messages the
\* document of c's room refuses (read_sync_step2 raises)
ApplyRefused(c, message) ==
  LET r == Get(ROOMS, room_id[c])
  IN /\ Len(message) >= 2
     /\ message[1] = 0
     /\ message[2] \in {message_yjs_sync_step2, message_yjs_update}
     /\ r # None
     /\ ApplyEach(room[r].ydoc, get_message(Slice(message, 2, Len(message))).msgs).exc # ""

\* An exception that leaves on_message makes the server abort the
\* connection: the handler gets no further frame, only on_close.
\* the history after a frame of c: whether it is to schedule a save, whether
\* an update of it was refused, and the content put into a room
Noted(c, scheduled, refused, putroom, content) ==
  [x \in Conns |->
     [hist[x] EXCEPT !.since = IF x = c /\ scheduled THEN 0 ELSE @,
                     !.owed = IF x = c /\ scheduled THEN TRUE ELSE @,
                     !.refused = IF x = c /\ refused THEN TRUE ELSE @,
                     !.put = IF x = putroom THEN content ELSE @]]

\* the handler's effects res take place
Deliver(c, message, res) ==
  /\ st[c] = "open"
  /\ nframes' = nframes + 1
  /\ ROOMS' = res.ROOMS
  /\ room' = Live(res.ROOMS, res.room)
  /\ room_id' = res.room_id
  /\ saving' = [saving EXCEPT ![c] = res.task]
  /\ callbacks' = callbacks \o res.cbs
  /\ outbox' = [outbox EXCEPT ![c] = @ \o res.out]
  /\ st' = [st EXCEPT ![c] = IF res.exc = "" THEN "open" ELSE "failed"]
  /\ ev' = Event("message", c, message, res.exc)
  /\ hist' = Noted(c, Schedules(c, message, res), ApplyRefused(c, message),
                   IF Puts(c, message, res) THEN MemberRoom(room, c) ELSE None,
                   Rest(message))
  /\ UNCHANGED <<files, codec, pypiVars, builderVars>>

on_message(c, message) == Deliver(c, message, OnMessage(c, message))

(***************************************************************************)
(* The IOLoop runs the next callback: YjsEchoWebSocket.hook_send_message   *)
(***************************************************************************)
\* the loop that runs the callback added last
HookSendsLatest ==
  /\ callbacks # <<>>
  /\ LET h == callbacks[Len(callbacks)]
     IN /\ outbox' = IF Writable(h.to)
                     THEN [outbox EXCEPT ![h.to] = Append(@, h.msg)]
                     ELSE outbox
        /\ ev' = Event("callback", h.to, h.msg,
                       IF Writable(h.to) THEN "" ELSE "WebSocketClosedError")
  /\ callbacks' = SubSeq(callbacks, 1, Len(callbacks) - 1)
  /\ UNCHANGED <<ROOMS, room, st, room_id, saving, files, nframes, hist, codec, pypiVars, builderVars>>

hook_send_message ==
  /\ callbacks # <<>>
  /\ LET h == Head(callbacks)
     IN /\ outbox' = IF Writable(h.to)
                     THEN [outbox EXCEPT ![h.to] = Append(@, h.msg)]
                     ELSE outbox
        /\ ev' = Event("callback", h.to, h.msg,
                       IF Writable(h.to) THEN "" ELSE "WebSocketClosedError")
  /\ callbacks' = Tail(callbacks)
  /\ UNCHANGED <<ROOMS, room, st, room_id, saving, files, nframes, hist, codec, pypiVars, builderVars>>

(***************************************************************************)
(* YjsEchoWebSocket.save_document, in its two steps: the sleep ends and    *)
(* the file is opened for writing; the write ends and the client is told.  *)
(***************************************************************************)
\* the timer that looks at the dirty flag again and gives up on a clean
\* document
SaveOpenChecksDirty(c) ==
  /\ saving[c].st = "sleeping"
  /\ saving[c].elapsed = SaveDelay
  /\ LET r == Get(ROOMS, room_id[c])
         clean == r # None /\ ~room[r].ydoc.dirty
     IN /\ saving' = IF clean THEN [saving EXCEPT ![c] = NoTask]
                     ELSE [saving EXCEPT ![c].st = "writing", ![c].path = room_id[c]]
        /\ files' = IF clean THEN files ELSE [files EXCEPT ![room_id[c]] = EmptyFile]
  /\ hist' = [hist EXCEPT ![c].owed = FALSE, ![c].since = 0,
                          ![c].bad = @ \/ ~hist[c].owed \/ hist[c].since # SaveDelay]
  /\ ev' = Event("timer", c, <<>>, "")
  /\ UNCHANGED <<ROOMS, room, st, room_id, callbacks, outbox, nframes, codec, pypiVars, builderVars>>

save_document_open(c) ==
  /\ saving[c].st = "sleeping"
  /\ saving[c].elapsed = SaveDelay
  /\ saving' = [saving EXCEPT ![c].st = "writing", ![c].path = room_id[c]]
  /\ files' = [files EXCEPT ![room_id[c]] = EmptyFile]
  /\ hist' = [hist EXCEPT ![c].owed = FALSE, ![c].since = 0,
                          ![c].bad = @ \/ ~hist[c].owed \/ hist[c].since # SaveDelay]
  /\ ev' = Event("timer", c, <<>>, "")
  /\ UNCHANGED <<ROOMS, room, st, room_id, callbacks, outbox, nframes, codec, pypiVars, builderVars>>

\* the write that tells every client of the room
SaveWriteTellsRoom(c) ==
  /\ saving[c].st = "writing"
  /\ files' = [files EXCEPT ![saving[c].path] = saving[c].source]
  /\ outbox' = LET r == Get(ROOMS, room_id[c])
                   told == IF r = None THEN {c} ELSE Members(room[r].clients) \cup {c}
               IN [d \in Conns |->
                     IF d \in told /\ Writable(d)
                     THEN Append(outbox[d], <<CONTENT_SAVED, 1>>) ELSE outbox[d]]
  /\ saving' = [saving EXCEPT ![c] = NoTask]
  /\ ev' = Event("write", c, <<>>, "")
  /\ UNCHANGED <<ROOMS, room, st, room_id, callbacks, nframes, hist, codec, pypiVars, builderVars>>

save_document_write(c) ==
  /\ saving[c].st = "writing"
  /\ files' = [files EXCEPT ![saving[c].path] = saving[c].source]
  /\ outbox' = IF Writable(c)
               THEN [outbox EXCEPT ![c] = Append(@, <<CONTENT_SAVED, 1>>)]
               ELSE outbox
  /\ saving' = [saving EXCEPT ![c] = NoTask]
  /\ ev' = Event("write", c, <<>>, "")
  /\ UNCHANGED <<ROOMS, room, st, room_id, callbacks, nframes, hist, codec, pypiVars, builderVars>>

\* open_file raises (the path cannot be opened for writing): the task ends
\* with the exception, which nothing awaits
save_document_open_raises(c) ==
  /\ saving[c].st = "sleeping"
  /\ saving[c].elapsed = SaveDelay
  /\ saving' = [saving EXCEPT ![c] = NoTask]
  /\ hist' = [hist EXCEPT ![c].owed = FALSE, ![c].since = 0, ![c].failed = TRUE,
                          ![c].bad = @ \/ ~hist[c].owed \/ hist[c].since # SaveDelay]
  /\ ev' = Event("timer", c, <<>>, "OSError")
  /\ UNCHANGED <<ROOMS, room, st, room_id, callbacks, outbox, files, nframes, codec, pypiVars, builderVars>>

\* the write that tells the client before it raises
SaveWriteRaisesAfterTelling(c) ==
  /\ saving[c].st = "writing"
  /\ saving' = [saving EXCEPT ![c] = NoTask]
  /\ outbox' = IF Writable(c)
               THEN [outbox EXCEPT ![c] = Append(@, <<CONTENT_SAVED, 1>>)]
               ELSE outbox
  /\ hist' = [hist EXCEPT ![c].failed = TRUE]
  /\ ev' = Event("write", c, <<>>, "OSError")
  /\ UNCHANGED <<ROOMS, room, st, room_id, callbacks, files, nframes, codec, pypiVars, builderVars>>

\* f.write raises: the file stays as open_file left it, the statements after
\* the with block are not reached
save_document_write_raises(c) ==
  /\ saving[c].st = "writing"
  /\ saving' = [saving EXCEPT ![c] = NoTask]
  /\ hist' = [hist EXCEPT ![c].failed = TRUE]
  /\ ev' = Event("write", c, <<>>, "OSError")
  /\ UNCHANGED <<ROOMS, room, st, room_id, callbacks, outbox, files, nframes, codec, pypiVars, builderVars>>

\* the clock advances by one tick; a timer that is due fires first
Tick ==
  /\ \E c \in Conns : saving[c].st = "sleeping"
  /\ \A c \in Conns : saving[c].st = "sleeping" => saving[c].elapsed < SaveDelay
  /\ saving' = [c \in Conns |->
                  IF saving[c].st = "sleeping"
                  THEN [saving[c] EXCEPT !.elapsed = @ + 1] ELSE saving[c]]
  /\ hist' = [c \in Conns |->
                IF hist[c].owed /\ hist[c].since <= SaveDelay
                THEN [hist[c] EXCEPT !.since = @ + 1] ELSE hist[c]]
  /\ ev' = Event("tick", None, <<>>, "")
  /\ UNCHANGED <<ROOMS, room, st, room_id, callbacks, outbox, files, nframes, codec, pypiVars, builderVars>>

(***************************************************************************)
(* The inbound frames and connection targets of the environment.           *)
(***************************************************************************)
RequestFrame == <<REQUEST_INITIALIZED_CONTENT>>
PutFrame(x) == <<PUT_INITIALIZED_CONTENT, x>>
RenameFrame(path) == <<RENAME_SESSION>> \o Target(KindFile, path)
UpdateFrame(u) == <<0, message_yjs_update, 1, u>>
AwarenessFrame == <<1, 7>>

\* the relay scenarios: two connections, the control frames, a frame that is
\* only relayed and an update that leaves the document clean
RelayConns == {"c1", "c2"}
Frames ==
  {RequestFrame, PutFrame(5), AwarenessFrame, UpdateFrame(3)}
    \cup {RenameFrame(p) : p \in Paths}
Targets == {Target(k, p) : k \in Kinds, p \in Paths}

\* the fan-out scenarios: three connections of one kind, relayed frames and
\* a rename
FanFrames == {AwarenessFrame, UpdateFrame(3), RenameFrame(PathB)}
FanTargets == {Target(KindFile, p) : p \in Paths}

\* the save scenarios: a notebook, an update that makes the document dirty
\* and renderable, one that clears the flag, and a rename
SaveConns == {"c1", "c2"}
SaveFrames == {UpdateFrame(1), UpdateFrame(3), RenameFrame(PathB)}
SaveTargets == {Target(KindNotebook, PathA)}

\* The malformed and the unknown: well-formed sync frames that touch only
\* the dirty flag, an update the document refuses, a truncated length
\* prefix, an unknown sync type, leading bytes other than 0 and the control
\* markers, a rename, and a content-saved frame sent by a client.
Step2Frame(u) == <<0, message_yjs_sync_step2, 1, u>>
TruncatedFrame == <<0, message_yjs_sync_step1, 128>>
UnknownSyncFrame == <<0, 3, 0>>
ReservedFrame == <<3, 7>>
Lead1Frame == <<1, 1, 4>>
Lead2Frame == <<2, 1, 4>>
ContentSavedFrame == <<CONTENT_SAVED, 1>>
ErrFrames ==
  {UpdateFrame(4), Step2Frame(3), UpdateFrame(9), TruncatedFrame, UnknownSyncFrame,
   ReservedFrame, Lead1Frame, Lead2Frame, RenameFrame(PathB), ContentSavedFrame}

Next ==
  \/ \E c \in RelayConns, t \in Targets : open(c, t)
  \/ \E c \in RelayConns, m \in Frames : nframes < MaxFrames /\ on_message(c, m)
  \/ \E c \in RelayConns : on_close(c)
  \/ hook_send_message

Spec == Init /\ [][Next]_vars

NextFan ==
  \/ \E c \in Conns, t \in FanTargets : open(c, t)
  \/ \E c \in Conns, m \in FanFrames : nframes < MaxFanFrames /\ on_message(c, m)
  \/ \E c \in Conns : on_close(c)
  \/ hook_send_message

SpecFan == Init /\ [][NextFan]_vars

\* the kinds scenario: two connections of a registered kind, of the other
\* registered kind or of a kind that is not registered, an update that
\* changes the document, and a rename
KindOther == <<120>>
KindTargets == {Target(k, p) : k \in Kinds \cup {KindOther}, p \in Paths}
KindFrames == {UpdateFrame(1), RenameFrame(PathB)}

NextKinds ==
  \/ \E c \in RelayConns, t \in KindTargets : open(c, t)
  \/ \E c \in RelayConns, m \in KindFrames : nframes < MaxKindFrames /\ on_message(c, m)
  \/ \E c \in RelayConns : on_close(c)
  \/ hook_send_message

SpecKinds == Init /\ [][NextKinds]_vars

NextErr ==
  \/ \E c \in RelayConns, t \in FanTargets : open(c, t)
  \/ \E c \in RelayConns, m \in ErrFrames : nframes < MaxErrFrames /\ on_message(c, m)
  \/ \E c \in RelayConns : on_close(c)
  \/ hook_send_message

SpecErr == Init /\ [][NextErr]_vars

\* Refused updates in a room of up to three clients: an update the document
\* takes, one it refuses, and a frame whose second sub-message is refused
\* after the first was applied.
PartlyRefusedFrame == <<0, message_yjs_update, 1, 4, 1, 9>>
RefuseFrames == {UpdateFrame(4), UpdateFrame(9), PartlyRefusedFrame}

NextRefuse ==
  \/ \E c \in Conns, t \in FanTargets : open(c, t)
  \/ \E c \in Conns, m \in RefuseFrames : nframes < MaxFanFrames /\ on_message(c, m)
  \/ \E c \in Conns : on_close(c)
  \/ hook_send_message

SpecRefuse == Init /\ [][NextRefuse]_vars

NextSave ==
  \/ \E c \in SaveConns, t \in SaveTargets : open(c, t)
  \/ \E c \in SaveConns, m \in SaveFrames : nframes < MaxSaveFrames /\ on_message(c, m)
  \/ \E c \in SaveConns : on_close(c)
  \/ hook_send_message
  \/ \E c \in SaveConns : save_document_open(c)
  \/ \E c \in SaveConns : save_document_write(c)
  \/ Tick

SpecSave == Init /\ [][NextSave]_vars

\* The save scenario with two contents: updates that give the document one
\* source or another
LastFrames == {UpdateFrame(1), UpdateFrame(2)}

NextLast ==
  \/ \E c \in SaveConns, t \in SaveTargets : open(c, t)
  \/ \E c \in SaveConns, m \in LastFrames : nframes < MaxLastFrames /\ on_message(c, m)
  \/ \E c \in SaveConns : on_close(c)
  \/ hook_send_message
  \/ \E c \in SaveConns : save_document_open(c)
  \/ \E c \in SaveConns : save_document_write(c)
  \/ Tick

SpecLast == Init /\ [][NextLast]_vars

\* The save scenario with a storage that can fail
NextSaveFail ==
  \/ \E c \in SaveConns, t \in SaveTargets : open(c, t)
  \/ \E c \in SaveConns, m \in SaveFrames : nframes < MaxSaveFailFrames /\ on_message(c, m)
  \/ \E c \in SaveConns : on_close(c)
  \/ hook_send_message
  \/ \E c \in SaveConns : save_document_open(c)
  \/ \E c \in SaveConns : save_document_write(c)
  \/ \E c \in SaveConns : save_document_open_raises(c)
  \/ \E c \in SaveConns : save_document_write_raises(c)
  \/ Tick

SpecSaveFail == Init /\ [][NextSaveFail]_vars

\* Sync frames read by the server: a SyncStep1 with two state vectors, an
\* update that gives the document a source, one that only makes it dirty,
\* and an update whose declared length is one more than the bytes that
\* follow.
Step1TwoFrame == <<0, message_yjs_sync_step1, 1, 0, 1, 1>>
ShortFrame == <<0, message_yjs_update, 2, 4>>
SyncFrames == {Step1TwoFrame, UpdateFrame(1), UpdateFrame(4), ShortFrame}
SyncTargets == {Target(KindFile, PathA)}

NextSync ==
  \/ \E c \in SaveConns, t \in SyncTargets : open(c, t)
  \/ \E c \in SaveConns, m \in SyncFrames : nframes < MaxSyncFrames /\ on_message(c, m)
  \/ \E c \in SaveConns : on_close(c)
  \/ hook_send_message
  \/ \E c \in SaveConns : save_document_open(c)
  \/ \E c \in SaveConns : save_document_write(c)
  \/ Tick

SpecSync == Init /\ [][NextSync]_vars

(***************************************************************************)
(* The varint codec on its own: write_var_uint, then the decoding loop of  *)
(* get_message on the bytes it produced.                                   *)
(***************************************************************************)
\* the integers encoded: the small ones and those around every change of
\* the encoding's length below 2^31
VarintInputs ==
  0..MaxVarint
    \cup {Pow2(14) - 1, Pow2(14), Pow2(21) - 1, Pow2(21), Pow2(28) - 1, Pow2(28),
          (Pow2(30) - 1) + Pow2(30)}

InitCodec ==
  /\ ROOMS = <<>>
  /\ room = <<>>
  /\ st = [c \in Conns |-> "connecting"]
  /\ room_id = [c \in Conns |-> None]
  /\ saving = [c \in Conns |-> NoTask]
  /\ callbacks = <<>>
  /\ outbox = [c \in Conns |-> <<>>]
  /\ files = [p \in Paths |-> NoFile]
  /\ nframes = 0
  /\ ev = Event("init", None, <<>>, "")
  /\ hist = [c \in Conns |-> NoHist]
  /\ \E n \in VarintInputs : codec = [Idle EXCEPT !.pc = "input", !.n = n]
  /\ PyPiInit
  /\ BuilderInit

Encode ==
  /\ codec.pc = "input"
  /\ codec' = [codec EXCEPT !.pc = "encoded", !.bytes = write_var_uint(codec.n)]
  /\ UNCHANGED <<ROOMS, room, st, room_id, saving, callbacks, outbox, files, nframes,
                 ev, hist, pypiVars, builderVars>>

Decode ==
  /\ codec.pc = "encoded"
  /\ LET v == read_var_uint(codec.bytes, 0, 0, 0)
     IN codec' = [codec EXCEPT !.pc = "decoded", !.value = v.value, !.i0 = v.i0,
                               !.err = v.err]
  /\ UNCHANGED <<ROOMS, room, st, room_id, saving, callbacks, outbox, files, nframes,
                 ev, hist, pypiVars, builderVars>>

NextCodec == Encode \/ Decode

SpecCodec == InitCodec /\ [][NextCodec]_vars

(***************************************************************************)
(* The framing on its own: byte strings, each behind the varint of its     *)
(* length as read_sync_step1 writes it, and get_message on the whole.      *)
(***************************************************************************)
\* the byte strings framed: the empty one, short ones, and one whose length
\* takes two bytes
PartSet == {<<>>, <<7>>, <<3, 200>>, [i \in 1..LongPart |-> 9]}
PartSeqs == UNION {[1..k -> PartSet] : k \in 0..MaxParts}

\* write_var_uint(len(message)) + message
Prefixed(msg) == write_var_uint(Len(msg)) \o msg

RECURSIVE Concat(_)
Concat(parts) ==
  IF parts = <<>> THEN <<>> ELSE Prefixed(Head(parts)) \o Concat(Tail(parts))

InitSplit ==
  /\ ROOMS = <<>>
  /\ room = <<>>
  /\ st = [c \in Conns |-> "connecting"]
  /\ room_id = [c \in Conns |-> None]
  /\ saving = [c \in Conns |-> NoTask]
  /\ callbacks = <<>>
  /\ outbox = [c \in Conns |-> <<>>]
  /\ files = [p \in Paths |-> NoFile]
  /\ nframes = 0
  /\ ev = Event("init", None, <<>>, "")
  /\ hist = [c \in Conns |-> NoHist]
  /\ \E S \in PartSeqs : codec = [Idle EXCEPT !.pc = "parts", !.parts = S]
  /\ PyPiInit
  /\ BuilderInit

Join ==
  /\ codec.pc = "parts"
  /\ codec' = [codec EXCEPT !.pc = "joined", !.bytes = Concat(codec.parts)]
  /\ UNCHANGED <<ROOMS, room, st, room_id, saving, callbacks, outbox, files, nframes,
                 ev, hist, pypiVars, builderVars>>

Split ==
  /\ codec.pc = "joined"
  /\ LET g == get_message(codec.bytes)
     IN codec' = [codec EXCEPT !.pc = "split", !.msgs = g.msgs, !.err = g.err]
  /\ UNCHANGED <<ROOMS, room, st, room_id, saving, callbacks, outbox, files, nframes,
                 ev, hist, pypiVars, builderVars>>

NextSplit == Join \/ Split

SpecSplit == InitSplit /\ [][NextSplit]_vars

(***************************************************************************)
(* Properties.                                                             *)
(***************************************************************************)
\* the step is on_message(c, m)
Handles(c, m) == ev' = Event("message", c, m, ev'.exc) /\ nframes' = nframes + 1

\* the step is on_close(c)
Closes(c) == st[c] \in {"open", "failed"} /\ st'[c] = "closed"

\* the step is open(c, t)
Opens(c) == st[c] = "connecting" /\ st'[c] = "open"

\* a frame whose leading byte is none of the control markers
NonControl(m) ==
  m[1] \notin {CONTENT_SAVED, RENAME_SESSION, PUT_INITIALIZED_CONTENT,
               REQUEST_INITIALIZED_CONTENT}

\* C1: a rename-session frame naming a new key N, handled on a connection of
\* a room with two or more clients whose key O differs from N while no room
\* is held at N, leaves the registry with the same Room object at N and no
\* entry at O, and every connection that was in the room with room key N.
C1_RenameMovesRoom ==
  [][\A c \in Conns, N \in Paths :
       LET O == room_id[c]
           r == Get(ROOMS, O)
       IN (/\ st[c] = "open"
           /\ r # None
           /\ Len(room[r].clients) >= 2
           /\ N # O
           /\ Get(ROOMS, N) = None
           /\ Handles(c, RenameFrame(N)))
          => (/\ Get(ROOMS', N) = r
              /\ O \notin DOMAIN ROOMS'
              /\ \A x \in Members(room[r].clients) : room_id'[x] = N)]_vars

\* C2: no room of the registry has an empty client map.
C2_NoEmptyRoom ==
  \A k \in DOMAIN ROOMS : ROOMS[k] # None => room[ROOMS[k]].clients # <<>>

\* the room of a path lost its sole client to on_close and left the registry,
\* after frames were handled
C2_Witness ==
  /\ ev.op = "close"
  /\ ev.exc = ""
  /\ nframes > 0
  /\ room_id[ev.c] \notin DOMAIN ROOMS
  /\ \E k \in DOMAIN ROOMS : ROOMS[k] # None

\* C3: opening a connection to a path without a room creates exactly one
\* room at that path with the connection as its only client; opening one to
\* a path with a room joins that room; closing a connection removes it from
\* its room's client map, and closing the last one removes the room from the
\* registry.
C3_OpenCreatesCloseRemoves ==
  [][\A c \in Conns :
       /\ Opens(c) =>
            LET path == room_id'[c]
                old == Get(ROOMS, path)
            IN IF old = None
               THEN /\ DOMAIN room' \ DOMAIN room = {Get(ROOMS', path)}
                    /\ room'[Get(ROOMS', path)].clients = <<c>>
                    /\ \A k \in DOMAIN ROOMS' \ {path} : Get(ROOMS', k) = Get(ROOMS, k)
               ELSE /\ ROOMS' = ROOMS
                    /\ DOMAIN room' = DOMAIN room
                    /\ room'[old].clients = Append(room[old].clients, c)
       /\ Closes(c) =>
            LET r == MemberRoom(room, c)
            IN /\ \A x \in DOMAIN room' : c \notin Members(room'[x].clients)
               /\ (r # None /\ room[r].clients = <<c>>)
                    => \A k \in DOMAIN ROOMS' : ROOMS'[k] # r]_vars

\* the callbacks a step added to the loop's queue
Added == SubSeq(callbacks', Len(callbacks) + 1, Len(callbacks'))

\* C4: a non-control frame received from connection A of a room is queued
\* for delivery exactly once to every other connection registered in the
\* room at that time, never to A and never to a connection outside the room.
C4_BroadcastToOthers ==
  [][\A A \in Conns, m \in FanFrames :
       LET r == MemberRoom(room, A)
       IN (st[A] = "open" /\ r # None /\ NonControl(m) /\ Handles(A, m))
          => /\ Len(callbacks') >= Len(callbacks)
             /\ SubSeq(callbacks', 1, Len(callbacks)) = callbacks
             /\ \A i \in 1..Len(Added) : Added[i].msg = m
             /\ \A x \in Conns :
                  Cardinality({i \in 1..Len(Added) : Added[i].to = x})
                    = IF x \in Members(room[r].clients) \ {A} THEN 1 ELSE 0]_vars

\* C5: the sync frames of one connection that arrive, for a dirty and
\* renderable document, before the previous frame's delay has elapsed result
\* in exactly one storage write, one delay after the last of them: while a
\* save is owed to the connection exactly one save task sleeps for it, and a
\* write begins only when it is owed, one delay after the last such frame.
C5_Debounce ==
  \A c \in Conns :
    /\ hist[c].owed <=> saving[c].st = "sleeping"
    /\ hist[c].owed => saving[c].elapsed = hist[c].since
    /\ ~hist[c].bad

\* the connections of a registered room with a pending save task
PendingIn(r) == {c \in Members(room[r].clients) : Pending(saving[c])}

\* C6: a room has at most one pending persistence task.
C6_OnePendingPerRoom ==
  \A r \in DOMAIN room : Cardinality(PendingIn(r)) <= 1

\* C7: no two storage writes to the same path are in progress at once.
C7_NoConcurrentWrites ==
  \A c, d \in Conns :
    (c # d /\ saving[c].st = "writing" /\ saving[d].st = "writing")
      => saving[c].path # saving[d].path

\* C8: when a connection becomes Open the server sends it exactly the frame
\* [0, 0, 1, 0], nothing was sent to it before, and nothing is sent or queued
\* for the other clients; the handshake stays the first frame it was sent.
C8_Handshake ==
  /\ [](\A c \in Conns : outbox[c] # <<>> => outbox[c][1] = <<0, 0, 1, 0>>)
  /\ [][\A c \in Conns :
          Opens(c) => /\ outbox[c] = <<>>
                      /\ outbox'[c] = <<(<<0, 0, 1, 0>>)>>
                      /\ \A d \in Conns \ {c} : outbox'[d] = outbox[d]
                      /\ callbacks' = callbacks]_vars

\* a connection joined a room that had a client which was already sent more
\* than its handshake
C8_Witness ==
  /\ ev.op = "open"
  /\ outbox[ev.c] = <<(<<0, 0, 1, 0>>)>>
  /\ \E d \in Members(room[ROOMS[room_id[ev.c]]].clients) \ {ev.c} :
       Len(outbox[d]) >= 2

\* C9: a request-initial-content frame from a client of a room is answered
\* with byte 127 followed by the payload of the last put-initial-content
\* frame handled in that room, or by byte 127 alone when there was none.
C9_RequestAnswersLastPut ==
  [][\A c \in Conns :
       LET r == MemberRoom(room, c)
       IN (st[c] = "open" /\ r # None /\ Handles(c, RequestFrame))
          => outbox'[c] = Append(outbox[c], <<127>> \o hist[r].put)]_vars

\* C10: decoding the encoding of n gives n and consumes exactly the encoded
\* bytes; every byte of the encoding but the last has its high bit set and
\* the last has it clear.
C10_VarintRoundTrip ==
  /\ codec.pc \in {"encoded", "decoded"} =>
       /\ Len(codec.bytes) >= 1
       /\ \A i \in 1..Len(codec.bytes) :
            /\ codec.bytes[i] \in 0..255
            /\ (codec.bytes[i] >= 128) <=> (i < Len(codec.bytes))
  /\ codec.pc = "decoded" =>
       /\ codec.err = ""
       /\ codec.value = codec.n
       /\ codec.i0 = Len(codec.bytes)

\* the largest integer below 2^31 went through the codec, as five bytes
C10_Witness ==
  /\ codec.pc = "decoded"
  /\ codec.n = (Pow2(30) - 1) + Pow2(30)
  /\ Len(codec.bytes) = 5

\* C11: splitting the concatenation of the length-prefixed elements of a
\* sequence of byte strings yields exactly those elements, in order, and ends
\* without an exception.
C11_SplitRoundTrip ==
  codec.pc = "split" => (codec.err = "" /\ codec.msgs = codec.parts)

\* the room c's key resolves to, and whether m is a sync frame whose length
\* prefix ends while the continuation bit is set
Resolved(c) == Get(ROOMS, room_id[c])
Truncated(m) ==
  /\ Len(m) >= 3
  /\ m[1] = 0
  /\ m[2] \in {message_yjs_sync_step1, message_yjs_sync_step2, message_yjs_update}
  /\ \A i \in 3..Len(m) : m[i] >= 128

\* C12: a sync frame whose length prefix is truncated is rejected with the
\* protocol's error (the RuntimeError the framing raises), and the registry
\* and every other room are left as they were.
C12_TruncatedPrefixRejected ==
  [][\A c \in Conns, m \in ErrFrames :
       (Handles(c, m) /\ Truncated(m) /\ Resolved(c) # None)
       => /\ ev'.exc = "RuntimeError"
          /\ ROOMS' = ROOMS
          /\ DOMAIN room' = DOMAIN room
          /\ \A r \in DOMAIN room : r # Resolved(c) => room'[r] = room[r]]_vars

\* C13: handling a rename-session frame sends the acknowledgment <<125, 1>>
\* to the requesting connection, once, and no frame to any other client.
C13_RenameAcknowledged ==
  [][\A c \in Conns, p \in Paths :
       Handles(c, RenameFrame(p))
       => /\ outbox'[c] = Append(outbox[c], <<RENAME_SESSION, 1>>)
          /\ \A d \in Conns \ {c} : outbox'[d] = outbox[d]
          /\ callbacks' = callbacks]_vars

\* C14: a frame of connection a with an update the document refuses raises
\* in a's handler only: nothing is queued for or sent to anyone else, the
\* registry, every client map and every other connection are as before; and
\* an update sent later by another client of the room is applied to the
\* document and queued for every other client of the room.
C14_RefusedUpdateConfined ==
  [][\A a \in Conns, m \in RefuseFrames :
       LET r == Resolved(a)
       IN /\ (Handles(a, m) /\ ApplyRefused(a, m))
             => /\ ev'.exc = "RuntimeError"
                /\ st'[a] = "failed"
                /\ callbacks' = callbacks
                /\ ROOMS' = ROOMS
                /\ DOMAIN room' = DOMAIN room
                /\ \A x \in DOMAIN room : room'[x].clients = room[x].clients
                /\ \A d \in Conns \ {a} :
                     /\ st'[d] = st[d]
                     /\ room_id'[d] = room_id[d]
                     /\ outbox'[d] = outbox[d]
          /\ (/\ Handles(a, m)
              /\ m = UpdateFrame(4)
              /\ \E b \in Conns \ {a} : hist[b].refused /\ room_id[b] = room_id[a])
             => /\ r # None
                /\ ev'.exc = ""
                /\ room'[r].ydoc = apply_update(room[r].ydoc, <<4>>)
                /\ Added = Fanout(a, room[r].clients, m)
                /\ Members(room[r].clients) \ {a}
                     = {Added[i].to : i \in 1..Len(Added)}]_vars

\* after a refused update of one client (since closed), another client's
\* update was applied and is queued for the third client of the room
C14_Witness ==
  /\ ev.op = "message" /\ ev.m = UpdateFrame(4) /\ ev.exc = ""
  /\ \E b \in Conns \ {ev.c} :
       /\ hist[b].refused
       /\ st[b] = "closed"
       /\ room_id[b] = room_id[ev.c]
  /\ Resolved(ev.c) # None
  /\ room[Resolved(ev.c)].ydoc.dirty
  /\ \E d \in Conns \ {ev.c} :
       /\ st[d] = "open"
       /\ \E i \in 1..Len(callbacks) : callbacks[i] = [to |-> d, msg |-> UpdateFrame(4)]

\* C15 as stated: a frame whose first byte is none of 0, 1, 2 and 124..127
\* is rejected with the protocol's error, not applied and not broadcast.
C15_UnknownTypeRejected ==
  [][\A c \in Conns, m \in ErrFrames :
       (Handles(c, m) /\ m[1] \notin {0, 1, 2, 124, 125, 126, 127})
       => /\ ev'.exc = "RuntimeError"
          /\ room' = room
          /\ callbacks' = callbacks]_vars

\* C15 amended: a frame whose first byte is neither 0 nor 125..127 is not
\* rejected: it is not applied, and it is queued as it is for the other
\* clients of the room the sender's key resolves to (for no one when the
\* key resolves to no room). What is rejected, with RuntimeError and
\* neither applied nor queued, is a sync frame (first byte 0) whose second
\* byte is none of 0, 1, 2, on a connection whose key resolves to a room.
C15_UnknownTypeRelayed ==
  [][\A c \in Conns, m \in ErrFrames :
       LET r == Resolved(c)
       IN /\ (/\ Handles(c, m)
               /\ m[1] \notin {0, RENAME_SESSION, PUT_INITIALIZED_CONTENT,
                                REQUEST_INITIALIZED_CONTENT})
             => /\ ev'.exc = ""
                /\ room' = room
                /\ Added = IF r = None THEN <<>> ELSE Fanout(c, room[r].clients, m)
          /\ (/\ Handles(c, m)
               /\ m[1] = 0
               /\ Len(m) >= 2
               /\ m[2] \notin {message_yjs_sync_step1, message_yjs_sync_step2,
                                message_yjs_update}
               /\ r # None)
             => /\ ev'.exc = "RuntimeError"
                /\ room' = room
                /\ callbacks' = callbacks
                /\ outbox' = outbox]_vars

\* a frame with first byte 3 was handled without error and is queued for
\* another, open client of the sender's room
C15_Witness ==
  /\ ev.op = "message" /\ ev.m = ReservedFrame /\ ev.exc = ""
  /\ st[ev.c] = "open"
  /\ \E d \in Conns \ {ev.c} :
       /\ st[d] = "open"
       /\ room_id[d] = room_id[ev.c]
       /\ \E i \in 1..Len(callbacks) : callbacks[i] = [to |-> d, msg |-> ReservedFrame]

\* the step is the end of c's storage write, without and with an error
Written(c) == saving[c].st = "writing" /\ saving'[c] = NoTask /\ ev'.exc = ""
SaveFailed(c) == Pending(saving[c]) /\ saving'[c] = NoTask /\ ev'.exc = "OSError"

\* C16 as stated: when a storage write completes, every connection registered
\* in the room is sent the content-saved frame.
C16_ContentSavedToAll ==
  [][\A c \in Conns :
       (Written(c) /\ Resolved(c) # None)
       => \A d \in Members(room[Resolved(c)].clients) :
            Writable(d) => outbox'[d] = Append(outbox[d], <<CONTENT_SAVED, 1>>)]_vars

\* C16 amended: when a storage write completes, the content-saved frame
\* <<124, 1>> is sent to the connection whose frame scheduled the save, if
\* it is still open, and nothing is sent to or queued for any other
\* connection.
C16_ContentSavedToSaver ==
  [][\A c \in Conns :
       Written(c)
       => /\ outbox'[c] = IF Writable(c)
                           THEN Append(outbox[c], <<CONTENT_SAVED, 1>>)
                           ELSE outbox[c]
          /\ \A d \in Conns \ {c} : outbox'[d] = outbox[d]
          /\ callbacks' = callbacks]_vars

\* a write completed and its connection was told, while another open client
\* of the same room has never been sent a content-saved frame
C16_Witness ==
  /\ ev.op = "write" /\ ev.exc = ""
  /\ st[ev.c] = "open"
  /\ outbox[ev.c][Len(outbox[ev.c])] = <<CONTENT_SAVED, 1>>
  /\ Resolved(ev.c) # None
  /\ \E d \in Members(room[Resolved(ev.c)].clients) \ {ev.c} :
       /\ st[d] = "open"
       /\ \A i \in 1..Len(outbox[d]) : outbox[d][i][1] # CONTENT_SAVED

\* C17: after a storage write completes, the dirty flag of the document of
\* the room that was saved is false.
C17_SaveClearsDirty ==
  [][\A c \in Conns :
       (Written(c) /\ Resolved(c) # None) => ~room'[Resolved(c)].ydoc.dirty]_vars

\* C18: when the storage write of a save fails, no frame is sent to or
\* queued for any client, the room's document (its dirty flag included),
\* the registry and every connection are as before; and a sync frame
\* accepted on that room afterwards that leaves its document dirty schedules
\* a new save.
C18_FailedWriteRetried ==
  [][\A c \in Conns :
       /\ SaveFailed(c)
          => /\ outbox' = outbox
             /\ callbacks' = callbacks
             /\ st' = st
             /\ ROOMS' = ROOMS
             /\ room' = room
             /\ room_id' = room_id
       /\ \A m \in SaveFrames :
            LET r == Resolved(c)
            IN (/\ Handles(c, m)
                /\ m[1] = 0
                /\ ev'.exc = ""
                /\ r # None
                /\ \E d \in Conns : hist[d].failed /\ room_id[d] = room_id[c]
                /\ room'[r].ydoc.dirty)
               => /\ saving'[c].st = "sleeping"
                  /\ saving'[c].elapsed = 0
                  /\ saving'[c].source = JsonDumps(room'[r].ydoc.source)]_vars

\* a write failed after the file was opened, nobody was told, the document
\* is dirty, and the next update on the room has scheduled a new save
C18_Witness ==
  /\ ev.op = "message" /\ ev.m = UpdateFrame(1) /\ ev.exc = ""
  /\ hist[ev.c].failed
  /\ saving[ev.c].st = "sleeping"
  /\ Resolved(ev.c) # None
  /\ room[Resolved(ev.c)].ydoc.dirty
  /\ files[room_id[ev.c]] = EmptyFile
  /\ \A d \in Conns : \A i \in 1..Len(outbox[d]) : outbox[d][i][1] # CONTENT_SAVED
  /\ \A d \in Conns : st[d] # "connecting" => st[d] = "open"

\* C19: a request-initial-content frame is answered by one frame, with
\* leading byte 127, sent to the sender; nothing is sent to or queued for
\* anyone else, and the registry, the rooms (content, document, client map),
\* the keys and the save tasks are as before.
C19_RequestAnswersSenderOnly ==
  [][\A c \in Conns :
       Handles(c, RequestFrame)
       => /\ Len(outbox'[c]) = Len(outbox[c]) + 1
          /\ SubSeq(outbox'[c], 1, Len(outbox[c])) = outbox[c]
          /\ outbox'[c][Len(outbox'[c])][1] = REQUEST_INITIALIZED_CONTENT
          /\ \A d \in Conns \ {c} : outbox'[d] = outbox[d]
          /\ callbacks' = callbacks
          /\ ROOMS' = ROOMS
          /\ room' = room
          /\ room_id' = room_id
          /\ saving' = saving
          /\ files' = files]_vars

\* C20 as stated: a frame whose first byte is 1 or 2 has each of its
\* sub-messages applied to the document of the sender's room, and is
\* broadcast.
C20_FirstByteSelectsType ==
  [][\A c \in Conns, m \in ErrFrames :
       LET r == Resolved(c)
       IN (Handles(c, m) /\ m[1] \in {1, 2} /\ r # None)
          => /\ room'[r].ydoc = ApplyEach(room[r].ydoc, get_message(Rest(m)).msgs).doc
             /\ Added = Fanout(c, room[r].clients, m)]_vars

\* C20 amended: the sync message type is the second byte of a frame whose
\* first byte is 0. Such a frame with second byte 1 or 2, on a connection
\* whose key resolves to a room, has its sub-messages applied to that room's
\* document, in order, up to the first that fails; only when none fails is
\* the frame then queued for the other clients of the room. A frame whose
\* first byte is 1 or 2 is not applied to any document; it is queued as it
\* is for the other clients of the room the key resolves to.
C20_SecondByteSelectsType ==
  [][\A c \in Conns, m \in ErrFrames :
       LET r == Resolved(c)
       IN /\ (/\ Handles(c, m)
               /\ m[1] = 0
               /\ Len(m) >= 2
               /\ m[2] \in {message_yjs_sync_step2, message_yjs_update}
               /\ r # None)
             => LET a == ApplyEach(room[r].ydoc,
                                   get_message(Slice(m, 2, Len(m))).msgs)
                IN /\ room'[r].ydoc = a.doc
                   /\ Added = IF ev'.exc = "" THEN Fanout(c, room[r].clients, m)
                                              ELSE <<>>
                   /\ a.exc # "" => ev'.exc = "RuntimeError"
          /\ (Handles(c, m) /\ m[1] \in {1, 2})
             => /\ ev'.exc = ""
                /\ room' = room
                /\ Added = IF r = None THEN <<>> ELSE Fanout(c, room[r].clients, m)]_vars

\* a SyncStep2 frame <<0, 1, 1, 3>> cleared the dirty flag that an earlier
\* update had set, and is queued for another, open client of the room
C20_Witness ==
  /\ ev.op = "message" /\ ev.m = Step2Frame(3) /\ ev.exc = ""
  /\ Resolved(ev.c) # None
  /\ ~room[Resolved(ev.c)].ydoc.dirty
  /\ nframes = 2
  /\ \E d \in Members(room[Resolved(ev.c)].clients) \ {ev.c} :
       /\ st[d] = "open"
       /\ \E i \in 1..Len(outbox[d]) : outbox[d][i] = UpdateFrame(4)
       /\ \E i \in 1..Len(callbacks) : callbacks[i] = [to |-> d, msg |-> Step2Frame(3)]

\* C21: a SyncStep1 message read by the server is answered with one frame
\* per sub-message, in order: byte 1, the varint of the length of the diff,
\* the diff of the room's document against that state vector. The replies go
\* to the requesting connection, nothing is sent to any other connection,
\* and the document is left as it was.
C21_Step1Replies ==
  [][\A c \in Conns, m \in SyncFrames :
       LET r == Resolved(c)
           svs == get_message(Slice(m, 2, Len(m))).msgs
           diff(i) == encode_state_as_update(room[r].ydoc, svs[i])
       IN (/\ Handles(c, m)
           /\ m[1] = 0
           /\ m[2] = message_yjs_sync_step1
           /\ r # None)
          => /\ outbox'[c] = outbox[c] \o
                  [i \in 1..Len(svs) |-> <<1>> \o write_var_uint(Len(diff(i))) \o diff(i)]
             /\ \A d \in Conns \ {c} : outbox'[d] = outbox[d]
             /\ room'[r].ydoc = room[r].ydoc]_vars

\* a SyncStep1 with the state vectors <<0>> and <<1>> on a document whose
\* source is 1 was answered with the diff <<1>> and then the empty diff
C21_Witness ==
  /\ ev.op = "message" /\ ev.m = Step1TwoFrame /\ ev.exc = ""
  /\ Resolved(ev.c) # None
  /\ room[Resolved(ev.c)].ydoc.source = 1
  /\ Len(outbox[ev.c]) >= 3
  /\ SubSeq(outbox[ev.c], Len(outbox[ev.c]) - 1, Len(outbox[ev.c])) = <<(<<1, 1, 1>>), (<<1, 0>>)>>

\* C22: no frame delivered to a client by the relay has a control marker
\* (124..127) as its leading byte.
C22_ControlNeverRelayed ==
  (ev.op = "callback" /\ ev.exc = "")
    => ev.m[1] \notin {CONTENT_SAVED, RENAME_SESSION, PUT_INITIALIZED_CONTENT,
                       REQUEST_INITIALIZED_CONTENT}

\* C23: a sync frame handled while a storage write for the sender's room is
\* in progress leaves that write in progress.
C23_WriteNotCancelled ==
  [][\A c, d \in Conns, m \in SaveFrames :
       (/\ Handles(c, m)
        /\ m[1] = 0
        /\ saving[d].st = "writing"
        /\ saving[d].path = room_id[c])
       => saving'[d] = saving[d]]_vars

\* the step is the end of the sleep of c's save task
TimerFires(c) == saving[c].st = "sleeping" /\ ev'.op = "timer" /\ ev'.c = c

\* C24 as stated: when the timer of a save fires and the document is not
\* dirty, no storage write is performed.
C24_CleanTimerSkipsWrite ==
  [][\A c \in Conns :
       (TimerFires(c) /\ Resolved(c) # None /\ ~room[Resolved(c)].ydoc.dirty)
       => (files' = files /\ saving'[c].st # "writing")]_vars

\* C24 amended: when the timer of a save fires and the storage can be
\* opened, the write begins whether or not the document is dirty: the file
\* is opened for writing and, when the write ends, holds the source taken
\* when the save was scheduled. The dirty flag is looked at only when a sync
\* frame arrives, and a frame that finds the document clean leaves the
\* handler's save task as it is.
C24_TimerWritesRegardless ==
  [][\A c \in Conns :
       /\ (TimerFires(c) /\ ev'.exc = "")
          => /\ saving'[c] = [saving[c] EXCEPT !.st = "writing", !.path = room_id[c]]
             /\ files' = [files EXCEPT ![room_id[c]] = EmptyFile]
       /\ Written(c) => files' = [files EXCEPT ![saving[c].path] = saving[c].source]
       /\ \A m \in SaveFrames :
            (/\ Handles(c, m)
             /\ m[1] = 0
             /\ ev'.exc = ""
             /\ Resolved(c) # None
             /\ ~room'[Resolved(c)].ydoc.dirty)
            => saving'[c] = saving[c]]_vars

\* the timer has fired on a document that an update had made clean again,
\* and the file is open for writing
C24_Witness ==
  /\ ev.op = "timer" /\ ev.exc = ""
  /\ saving[ev.c].st = "writing"
  /\ Resolved(ev.c) # None
  /\ ~room[Resolved(ev.c)].ydoc.dirty
  /\ files[room_id[ev.c]] = EmptyFile

\* the relayed frames written to d so far (the handshake frame of open
\* left out)
RelayedTo(d) == SelectSeq(outbox[d], LAMBDA f : f # SyncStep1Hello)

\* the frames queued for d and not yet handed to its transport, oldest first
QueuedFor(d) ==
  LET mine == SelectSeq(callbacks, LAMBDA h : h.to = d)
  IN [i \in 1..Len(mine) |-> mine[i].msg]

\* what d has been and will be sent, in that order
Stream(d) == RelayedTo(d) \o QueuedFor(d)

\* C25: frames accepted by a room reach each client in the order they were
\* received: the frames written to and queued for a client form one stream
\* that a received frame joins only at its tail, that a delivery leaves as
\* it is (the oldest queued frame moves to the end of what was written) and
\* that loses only the oldest queued frame when the client's transport has
\* closed; no step reorders it.
C25_DeliveredInOrder ==
  [][\A d \in Conns :
       \/ Stream(d)' = Stream(d)
       \/ \E c \in Conns \ {d}, m \in FanFrames :
            /\ Handles(c, m)
            /\ RelayedTo(d)' = RelayedTo(d)
            /\ QueuedFor(d)' = Append(QueuedFor(d), m)
       \/ /\ ~Writable(d)
          /\ ev'.op = "callback" /\ ev'.c = d
          /\ QueuedFor(d) # <<>>
          /\ RelayedTo(d)' = RelayedTo(d)
          /\ QueuedFor(d)' = Tail(QueuedFor(d))]_vars

\* two different frames were relayed to one client, the second of them just
\* now
C25_Witness ==
  \E d \in Conns :
    /\ ev.op = "callback" /\ ev.c = d /\ ev.exc = ""
    /\ Len(RelayedTo(d)) = 2
    /\ RelayedTo(d)[1] # RelayedTo(d)[2]
    /\ RelayedTo(d)[2] = ev.m

\* the splitting of sync frame m yields at least one slice and then fails:
\* the last length prefix declares more bytes than remain
DeclaresTooMuch(m) ==
  /\ Len(m) >= 3
  /\ m[1] = 0
  /\ get_message(Slice(m, 2, Len(m))).err = "RuntimeError"
  /\ get_message(Slice(m, 2, Len(m))).msgs # <<>>

\* C26: a SyncStep2 or Update frame whose length prefix declares more bytes
\* than remain is refused with the framing's error before the short slice is
\* handed on, so the room's document is left as it was.
C26_ShortSliceNotApplied ==
  [][\A c \in Conns, m \in SyncFrames :
       (/\ Handles(c, m)
        /\ m[2] \in {message_yjs_sync_step2, message_yjs_update}
        /\ DeclaresTooMuch(m)
        /\ Resolved(c) # None)
       => /\ ev'.exc = "RuntimeError"
          /\ room'[Resolved(c)].ydoc = room[Resolved(c)].ydoc]_vars

\* C27: a sync frame that the reader accepts and that leaves the room's
\* document dirty while its source cannot be generated raises nothing,
\* leaves the handler without a pending save task, and is queued for every
\* other client of the room.
C27_UnrenderableNotSaved ==
  [][\A c \in Conns, m \in SyncFrames :
       LET r == Resolved(c)
       IN (/\ Handles(c, m)
           /\ m[1] = 0
           /\ r # None
           /\ read_sync_message(room[r].ydoc, Rest(m)).exc = ""
           /\ room'[r].ydoc.dirty
           /\ room'[r].ydoc.source = NoSource)
          => /\ ev'.exc = ""
             /\ ~Pending(saving'[c])
             /\ files' = files
             /\ Added = Fanout(c, room[r].clients, m)]_vars

\* an update that only marks the document dirty was handled in a room with
\* another client: no task, and the frame is queued for that client
C27_Witness ==
  /\ ev.op = "message" /\ ev.m = UpdateFrame(4) /\ ev.exc = ""
  /\ Resolved(ev.c) # None
  /\ room[Resolved(ev.c)].ydoc.dirty
  /\ room[Resolved(ev.c)].ydoc.source = NoSource
  /\ saving[ev.c] = NoTask
  /\ \E d \in Conns \ {ev.c} :
       /\ callbacks # <<>>
       /\ callbacks[Len(callbacks)] = [to |-> d, msg |-> UpdateFrame(4)]

\* C28: the save task of a connection outlives the connection. Closing
\* leaves the task as it is; on a closed connection the timer still opens
\* the file when the storage lets it, and the write still puts the source in
\* the file; the content-saved frame that cannot be sent is dropped and the
\* closed transport raises nothing out of the task.
C28_SaveSurvivesClose ==
  [][\A c \in Conns :
       /\ Closes(c) => saving'[c] = saving[c]
       /\ (st[c] = "closed" /\ Pending(saving[c]) /\ ev'.c = c
             /\ ev'.op \in {"timer", "write"})
          => ev'.exc # "WebSocketClosedError"
       /\ (st[c] = "closed" /\ TimerFires(c) /\ ev'.exc = "")
          => saving'[c] = [saving[c] EXCEPT !.st = "writing", !.path = room_id[c]]
       /\ (st[c] = "closed" /\ Written(c))
          => /\ files'[saving[c].path] = saving[c].source
             /\ outbox' = outbox]_vars

\* a connection closed while its save was pending, and the write has just
\* ended: the file holds the source and the connection was sent no
\* content-saved frame
C28_Witness ==
  /\ ev.op = "write" /\ ev.exc = ""
  /\ st[ev.c] = "closed"
  /\ saving[ev.c] = NoTask
  /\ files[room_id[ev.c]] \in Sources \cup {JsonDumps(x) : x \in Sources}
  /\ \A i \in 1..Len(outbox[ev.c]) : outbox[ev.c][i][1] # CONTENT_SAVED

\* C29: when the loop runs the callback of a client whose transport has
\* closed since the frame was queued, nothing is raised, and the callbacks
\* queued for the other clients stay queued to be run in their turn.
C29_ClosedDeliveryQuiet ==
  [][\A d \in Conns :
       (/\ callbacks # <<>>
        /\ Head(callbacks).to = d
        /\ st[d] = "closed"
        /\ ev'.op = "callback")
       => /\ ev'.exc = ""
          /\ callbacks' = Tail(callbacks)]_vars

\* C30: the document adapter of a room is built once, with the room: a
\* connection that opens a key no room is held at creates a room of its own
\* kind with a fresh adapter, the notebook one for the notebook kind and the
\* file one for every other kind; a connection that opens the key of a room
\* joins it and leaves its kind and its adapter, state included, as they
\* were, whatever its own kind; and no step changes the kind or the adapter
\* class of a room.
C30_AdapterBuiltOnce ==
  [][/\ \A c \in Conns, t \in KindTargets :
          LET type == SplitColon(t)[1]
              path == SplitColon(t)[2]
              old == Get(ROOMS, path)
          IN (Opens(c) /\ ev'.m = t)
             => IF old = None
                THEN /\ ROOMS'[path] = c
                     /\ room'[c].type = type
                     /\ room'[c].ydoc =
                          [cls |-> IF type = KindNotebook THEN "notebook" ELSE "file",
                           dirty |-> FALSE, source |-> NoSource]
                ELSE /\ ROOMS'[path] = old
                     /\ room'[old].type = room[old].type
                     /\ room'[old].ydoc = room[old].ydoc
     /\ \A r \in DOMAIN room \cap DOMAIN room' :
          /\ room'[r].type = room[r].type
          /\ room'[r].ydoc.cls = room[r].ydoc.cls]_vars

\* a connection of the notebook kind has just joined a room created with a
\* kind that is not registered, whose file adapter already holds an update
C30_Witness ==
  /\ ev.op = "open" /\ ev.m = Target(KindNotebook, PathA)
  /\ Resolved(ev.c) \in Conns \ {ev.c}
  /\ room[Resolved(ev.c)].type = KindOther
  /\ room[Resolved(ev.c)].ydoc = [cls |-> "file", dirty |-> TRUE, source |-> 1]
  /\ Len(room[Resolved(ev.c)].clients) = 2

(***************************************************************************)
(* PyPiExtensionManager: the cached list of extension candidates and the   *)
(* throttled XML-RPC request that fills it.                                *)
(***************************************************************************)
\* what the XML-RPC server answers to browse: a list of candidates, or an
\* xmlrpc.client.Fault. Of the faultString, what the code looks at: how it
\* starts, and the number in "Limit may reset in N seconds." (0: no match)
Lists == {"L1", "L2"}
Fault(faultCode, prefix, reset) ==
  [faultCode |-> faultCode, faultString |-> [prefix |-> prefix, reset |-> reset]]
TooManyRequests == Fault(0 - 32500, "HTTPTooManyRequests:", 0)
TooManyRequestsReset == Fault(0 - 32500, "HTTPTooManyRequests:", 2)
ServerError == Fault(0 - 32500, "RuntimeError:", 0)
UnknownMethod == Fault(1, "HTTPTooManyRequests:", 0)
Faults == {TooManyRequests, TooManyRequestsReset, ServerError, UnknownMethod}

\* err.faultCode == -32500 and err.faultString.startswith("HTTPTooManyRequests:")
Throttled(err) ==
  err.faultCode = 0 - 32500 /\ err.faultString.prefix = "HTTPTooManyRequests:"

\* delay = 1.01, or the number matched in the faultString; in clock ticks
Delay(err) == IF err.faultString.reset = 0 THEN 1 ELSE err.faultString.reset

\* the guard of __get_all_extensions
Stale ==
  \/ __all_packages_cache = None
  \/ now > __last_all_packages_request_time + CacheTimeout

\* list_packages, up to the first await of __get_all_extensions: the cached
\* list is returned, or __throttleRequest(True, browse, ...) is entered and
\* the call is handed to the executor
list_packages(t) ==
  /\ tasks[t].pc \in {"idle", "done"}
  /\ ncalls < MaxListCalls
  /\ ncalls' = ncalls + 1
  /\ tasks' = [tasks EXCEPT ![t] =
                 IF Stale
                 THEN [IdleTask EXCEPT !.pc = "call", !.recursive = TRUE, !.began = now]
                 ELSE [IdleTask EXCEPT !.pc = "done", !.result = __all_packages_cache]]
  /\ UNCHANGED <<__all_packages_cache, __last_all_packages_request_time, now, rpc>>
  /\ UNCHANGED <<yjsVars, builderVars>>

\* run_in_executor returns data: __throttleRequest returns it, and
\* __get_all_extensions stores it with the time
run_in_executor_returns(t, data) ==
  /\ tasks[t].pc \in {"call", "retry"}
  /\ __all_packages_cache' = data
  /\ __last_all_packages_request_time' = now
  /\ tasks' = [tasks EXCEPT ![t].pc = "done", ![t].result = data, ![t].raised = NoFault]
  /\ rpc' = Append(rpc, [began |-> tasks[t].began, answered |-> now])
  /\ UNCHANGED <<now, ncalls>>
  /\ UNCHANGED <<yjsVars, builderVars>>

\* run_in_executor raises err. In the try block a throttling fault starts
\* the sleep, and any other fault is caught and dropped, so that return data
\* reads a name that was never bound; in the except block (the call after
\* the sleep of the inner __throttleRequest) nothing catches the fault.
run_in_executor_raises(t, err) ==
  /\ tasks[t].pc \in {"call", "retry"}
  /\ tasks' = [tasks EXCEPT ![t] =
                 IF tasks[t].pc = "retry"
                 THEN [@ EXCEPT !.pc = "done", !.exc = "Fault", !.fault = err,
                                !.raised = err]
                 ELSE IF Throttled(err)
                 THEN [@ EXCEPT !.pc = "sleep", !.wake = now + Delay(err), !.raised = err]
                 ELSE [@ EXCEPT !.pc = "done", !.exc = "UnboundLocalError",
                                !.raised = err]]
  /\ UNCHANGED <<__all_packages_cache, __last_all_packages_request_time, now, ncalls, rpc>>
  /\ UNCHANGED <<yjsVars, builderVars>>

\* asyncio.sleep(delay * rpc_request_throttling + 0.01) ends: the outer
\* __throttleRequest enters the inner one, the inner one calls fn again
sleep_ends(t) ==
  /\ tasks[t].pc = "sleep"
  /\ now > tasks[t].wake
  /\ tasks' = [tasks EXCEPT ![t].pc = IF tasks[t].recursive THEN "call" ELSE "retry",
                            ![t].recursive = FALSE]
  /\ UNCHANGED <<__all_packages_cache, __last_all_packages_request_time, now, ncalls, rpc>>
  /\ UNCHANGED <<yjsVars, builderVars>>

\* the clock
Clock ==
  /\ now < MaxNow
  /\ now' = now + 1
  /\ UNCHANGED <<__all_packages_cache, __last_all_packages_request_time, tasks, ncalls, rpc>>
  /\ UNCHANGED <<yjsVars, builderVars>>

NextPyPi ==
  \/ \E t \in Tasks : list_packages(t)
  \/ \E t \in Tasks, data \in Lists : run_in_executor_returns(t, data)
  \/ \E t \in Tasks, err \in Faults : run_in_executor_raises(t, err)
  \/ \E t \in Tasks : sleep_ends(t)
  \/ Clock

SpecPyPi == Init /\ [][NextPyPi]_vars

\* C31: a Fault raised by the XML-RPC call that is not a throttling fault
\* ends __throttleRequest with that Fault.
C31_FaultPropagates ==
  \A t \in Tasks :
    (tasks[t].raised # NoFault /\ ~Throttled(tasks[t].raised))
    => /\ tasks[t].pc = "done"
       /\ tasks[t].exc = "Fault"
       /\ tasks[t].fault = tasks[t].raised

\* C32: the list of candidates is requested at most once per cache_timeout
\* window: of two requests that were answered with a list, the later one
\* was begun more than cache_timeout after the earlier one was answered.
C32_OneRequestPerWindow ==
  \A i, j \in 1..Len(rpc) :
    i < j => rpc[j].began > rpc[i].answered + CacheTimeout

\* C33: in every reachable state the room key of every open connection maps
\* in the registry to a room whose client map contains the connection, and
\* every entry of a registered room's client map is an open connection (or
\* one whose handler has just raised and whose on_close is still to run).
C33_KeysAndClientsAgree ==
  /\ \A c \in Conns :
       st[c] = "open"
       => /\ Resolved(c) # None
          /\ c \in Members(room[Resolved(c)].clients)
  /\ \A k \in DOMAIN ROOMS :
       ROOMS[k] # None
       => \A x \in Members(room[ROOMS[k]].clients) : st[x] \in {"open", "failed"}

\* C34: closing an open connection, whatever was handled before on it or in
\* its room, raises nothing and leaves the connection in no room's client
\* map.
C34_CloseNeverRaises ==
  [][\A c \in Conns :
       (st[c] = "open" /\ Closes(c))
       => /\ ev'.exc = ""
          /\ \A r \in DOMAIN room' : c \notin Members(room'[r].clients)]_vars

\* C35: a non-control frame received on an open connection is either
\* rejected with an error or queued for every other client of the
\* connection's room; it is never dropped without a trace.
C35_NeverDroppedSilently ==
  [][\A c \in Conns, m \in Frames :
       LET r == MemberRoom(room, c)
       IN (st[c] = "open" /\ NonControl(m) /\ Handles(c, m))
          => \/ ev'.exc # ""
             \/ /\ r # None
                /\ \A x \in Members(room[r].clients) \ {c} :
                     \E i \in 1..Len(Added) : Added[i] = [to |-> x, msg |-> m]]_vars

\* C36: a sync frame is handled all or nothing: either it raises nothing,
\* its sub-messages are applied and it is queued for the other clients of
\* the room, or it raises, the document is as it was and nothing is queued.
C36_SyncFrameAtomic ==
  [][\A c \in Conns, m \in RefuseFrames :
       LET r == Resolved(c)
       IN (Handles(c, m) /\ m[1] = 0 /\ r # None)
          => \/ /\ ev'.exc = ""
                /\ room'[r].ydoc = read_sync_message(room[r].ydoc, Rest(m)).doc
                /\ Added = Fanout(c, room[r].clients, m)
             \/ /\ ev'.exc # ""
                /\ room'[r].ydoc = room[r].ydoc
                /\ Added = <<>>]_vars

\* C37: once the sync frames of a room have been handled and every save
\* they scheduled has run, the file of a room whose document is dirty and
\* renderable holds the document's content as of the last frame, also when
\* the frames came from several connections.
C37_LastContentSaved ==
  \A k \in DOMAIN ROOMS :
    LET r == ROOMS[k]
    IN (/\ r # None
        /\ room[r].ydoc.dirty
        /\ room[r].ydoc.source # NoSource
        /\ \A c \in Conns : ~Pending(saving[c]))
       => files[k] = IF room[r].type = KindNotebook
                     THEN JsonDumps(room[r].ydoc.source)
                     ELSE room[r].ydoc.source

(***************************************************************************)
(* Builder: build() and cancel() coroutines around one _run_build on the   *)
(* executor, and the gen.Future that carries its outcome.                  *)
(***************************************************************************)
\* gen.Future(): pending, then done with a result or with an exception
PendingFuture == [done |-> FALSE, result |-> FALSE, exc |-> ""]

\* how _run_build ends: it returns, or raises Exception('Aborted'), or
\* raises another exception
Outcomes == {"ok", "Aborted", "Error"}

\* future.set_result(True), future.set_result(False), future.set_exception(e)
Settled(outcome) ==
  IF outcome = "ok" THEN [done |-> TRUE, result |-> TRUE, exc |-> ""]
  ELSE IF outcome = "Aborted" THEN [done |-> TRUE, result |-> FALSE, exc |-> ""]
  ELSE [done |-> TRUE, result |-> FALSE, exc |-> outcome]

CancelInProgress == "ValueError: Cancel in progress"
NoCurrentBuild == "ValueError: No current build"

\* the build that does not look at self.building
BuildStartsAnyway(p) ==
  /\ calls[p].pc \in {"idle", "done"}
  /\ nbuilds < MaxBuilderCalls
  /\ nbuilds' = nbuilds + 1
  /\ IF _canceling
     THEN /\ calls' = [calls EXCEPT ![p] = [op |-> "build", n |-> nbuilds + 1, pc |-> "done",
                                            fut |-> NoFuture, exc |-> CancelInProgress]]
          /\ UNCHANGED <<building, canceled, _canceling, _future, futures>>
     ELSE /\ canceled' = FALSE
          /\ futures' = Append(futures, PendingFuture)
          /\ _future' = Len(futures) + 1
          /\ building' = TRUE
          /\ calls' = [calls EXCEPT ![p] = [op |-> "build", n |-> nbuilds + 1, pc |-> "running",
                                            fut |-> Len(futures) + 1, exc |-> ""]]
          /\ UNCHANGED _canceling
  /\ UNCHANGED <<yjsVars, pypiVars>>

\* the build that does not look at self._canceling
BuildIgnoresCancel(p) ==
  /\ calls[p].pc \in {"idle", "done"}
  /\ nbuilds < MaxBuilderCalls
  /\ nbuilds' = nbuilds + 1
  /\ IF ~building
     THEN /\ canceled' = FALSE
          /\ futures' = Append(futures, PendingFuture)
          /\ _future' = Len(futures) + 1
          /\ building' = TRUE
          /\ calls' = [calls EXCEPT ![p] = [op |-> "build", n |-> nbuilds + 1, pc |-> "running",
                                            fut |-> Len(futures) + 1, exc |-> ""]]
          /\ UNCHANGED _canceling
     ELSE /\ calls' = [calls EXCEPT ![p] = [op |-> "build", n |-> nbuilds + 1, pc |-> "waiting",
                                            fut |-> _future, exc |-> ""]]
          /\ UNCHANGED <<building, canceled, _canceling, _future, futures>>
  /\ UNCHANGED <<yjsVars, pypiVars>>

\* Builder.build up to its first yield: it raises, or starts _run_build on
\* the executor, or goes on to wait for the future of the running build
build(p) ==
  /\ calls[p].pc \in {"idle", "done"}
  /\ nbuilds < MaxBuilderCalls
  /\ nbuilds' = nbuilds + 1
  /\ IF _canceling
     THEN /\ calls' = [calls EXCEPT ![p] = [op |-> "build", n |-> nbuilds + 1, pc |-> "done",
                                            fut |-> NoFuture, exc |-> CancelInProgress]]
          /\ UNCHANGED <<building, canceled, _canceling, _future, futures>>
     ELSE IF ~building
     THEN /\ canceled' = FALSE
          /\ futures' = Append(futures, PendingFuture)
          /\ _future' = Len(futures) + 1
          /\ building' = TRUE
          /\ calls' = [calls EXCEPT ![p] = [op |-> "build", n |-> nbuilds + 1, pc |-> "running",
                                            fut |-> Len(futures) + 1, exc |-> ""]]
          /\ UNCHANGED _canceling
     ELSE /\ calls' = [calls EXCEPT ![p] = [op |-> "build", n |-> nbuilds + 1, pc |-> "waiting",
                                            fut |-> _future, exc |-> ""]]
          /\ UNCHANGED <<building, canceled, _canceling, _future, futures>>
  /\ UNCHANGED <<yjsVars, pypiVars>>

\* _run_build ends: the future is settled, building is reset in the finally
\* clause, and yield self._future on the settled future ends build() at once
run_build_ends(p, outcome) ==
  /\ calls[p].pc = "running"
  /\ futures' = [futures EXCEPT ![calls[p].fut] = Settled(outcome)]
  /\ building' = FALSE
  /\ calls' = [calls EXCEPT ![p].pc = "done",
                            ![p].exc = futures'[_future].exc]
  /\ UNCHANGED <<canceled, _canceling, _future, nbuilds>>
  /\ UNCHANGED <<yjsVars, pypiVars>>

\* Builder.cancel up to its yield
cancel(p) ==
  /\ calls[p].pc \in {"idle", "done"}
  /\ nbuilds < MaxBuilderCalls
  /\ nbuilds' = nbuilds + 1
  /\ IF ~building
     THEN /\ calls' = [calls EXCEPT ![p] = [op |-> "cancel", n |-> nbuilds + 1, pc |-> "done",
                                            fut |-> NoFuture, exc |-> NoCurrentBuild]]
          /\ UNCHANGED _canceling
     ELSE /\ _canceling' = TRUE
          /\ calls' = [calls EXCEPT ![p] = [op |-> "cancel", n |-> nbuilds + 1, pc |-> "waiting",
                                            fut |-> _future, exc |-> ""]]
  /\ UNCHANGED <<building, canceled, _future, futures>>
  /\ UNCHANGED <<yjsVars, pypiVars>>

\* the coroutines suspended in yield self._future on settled future f
Waiting(f) == {p \in Callers : calls[p].pc = "waiting" /\ calls[p].fut = f}

\* the loop runs the done callbacks of future f, one after the other: each
\* suspended build() ends with the future's outcome; each suspended cancel()
\* is thrown the future's exception at its yield, or goes on to reset
\* _canceling and set canceled
resume(f) ==
  /\ f \in 1..Len(futures)
  /\ futures[f].done
  /\ Waiting(f) # {}
  /\ calls' = [p \in Callers |->
                 IF p \in Waiting(f)
                 THEN [calls[p] EXCEPT !.pc = "done", !.exc = futures[f].exc]
                 ELSE calls[p]]
  /\ IF futures[f].exc = "" /\ \E p \in Waiting(f) : calls[p].op = "cancel"
     THEN _canceling' = FALSE /\ canceled' = TRUE
     ELSE UNCHANGED <<_canceling, canceled>>
  /\ UNCHANGED <<building, _future, futures, nbuilds>>
  /\ UNCHANGED <<yjsVars, pypiVars>>

NextBuilder ==
  \/ \E p \in Callers : build(p)
  \/ \E p \in Callers, outcome \in Outcomes : run_build_ends(p, outcome)
  \/ \E p \in Callers : cancel(p)
  \/ \E f \in 1..MaxBuilderCalls : resume(f)

SpecBuilder == Init /\ [][NextBuilder]_vars

\* the step is a build() or a cancel() call of p; the _run_build calls in
\* flight
BuildCalled(p) ==
  nbuilds' = nbuilds + 1 /\ calls'[p].n = nbuilds' /\ calls'[p].op = "build"
CancelCalled(p) ==
  nbuilds' = nbuilds + 1 /\ calls'[p].n = nbuilds' /\ calls'[p].op = "cancel"
InFlight == {p \in Callers : calls[p].pc = "running"}

\* C38 as stated: at most one _run_build is in flight; a build() call made
\* while building is true starts no new build and goes on to wait for the
\* future of the running one, whose outcome it ends with; building is true
\* exactly while a _run_build is in flight.
C38_OneBuildAtATime ==
  [][/\ Cardinality(InFlight') <= 1
     /\ building' <=> InFlight' # {}
     /\ \A p \in Callers :
          (BuildCalled(p) /\ building)
          => /\ futures' = futures
             /\ InFlight' = InFlight
             /\ calls'[p].pc = "waiting"
             /\ calls'[p].fut = _future
     /\ \A p \in Callers :
          (calls[p].op = "build" /\ calls[p].pc = "waiting" /\ calls'[p].pc = "done")
          => calls'[p].exc = futures[calls[p].fut].exc]_vars

\* C38 amended: at most one _run_build is in flight and building is true
\* exactly while one is; a build() call made while building is true starts
\* no new build: when no cancel is in progress it waits for the future of
\* the running build and ends with its outcome (it returns after a success
\* or an abort and raises the build's exception), and when a cancel is in
\* progress it fails at once with 'Cancel in progress'.
C38_OneBuildUnlessCanceling ==
  [][/\ Cardinality(InFlight') <= 1
     /\ building' <=> InFlight' # {}
     /\ \A p \in Callers :
          (BuildCalled(p) /\ building)
          => /\ futures' = futures
             /\ InFlight' = InFlight
             /\ IF _canceling
                THEN calls'[p].pc = "done" /\ calls'[p].exc = CancelInProgress
                ELSE /\ calls'[p].pc = "waiting"
                     /\ calls'[p].fut = _future
                     /\ ~futures[_future].done
     /\ \A p \in Callers :
          (calls[p].op = "build" /\ calls[p].pc = "waiting" /\ calls'[p].pc = "done")
          => /\ futures[calls[p].fut].done
             /\ calls'[p].exc = futures[calls[p].fut].exc]_vars

\* a build() made during another build has just ended with the exception
\* that build failed with, and nothing is building
C38_Witness ==
  \E p, q \in Callers :
    /\ p # q
    /\ calls[p].op = "build" /\ calls[q].op = "build"
    /\ calls[p].fut = calls[q].fut /\ calls[p].fut # NoFuture
    /\ calls[p].pc = "done" /\ calls[q].pc = "done"
    /\ calls[p].exc = "Error" /\ calls[q].exc = "Error"
    /\ ~building

\* C39: when a cancel() that waited for a build finishes, however the build
\* ended, _canceling is false again and a build() made next is accepted.
C39_CancelResetsCanceling ==
  [][\A p \in Callers :
       (calls[p].op = "cancel" /\ calls[p].pc = "waiting" /\ calls'[p].pc = "done")
       => ~_canceling']_vars

\* C40: a build() call made while a cancel() is waiting fails with 'Cancel
\* in progress', and a cancel() call made while building is false fails with
\* 'No current build'; neither changes building, canceled, _canceling or
\* _future, nor any future.
C40_RefusedCallsChangeNothing ==
  [][\A p \in Callers :
       /\ (/\ BuildCalled(p)
           /\ \E q \in Callers : calls[q].op = "cancel" /\ calls[q].pc = "waiting")
          => /\ calls'[p].pc = "done"
             /\ calls'[p].exc = CancelInProgress
             /\ UNCHANGED <<building, canceled, _canceling, _future, futures>>
       /\ (CancelCalled(p) /\ ~building)
          => /\ calls'[p].pc = "done"
             /\ calls'[p].exc = NoCurrentBuild
             /\ UNCHANGED <<building, canceled, _canceling, _future, futures>>]_vars

\* a build() has just been refused while a cancel() waits for the running
\* build
C40_Witness ==
  \E p, q \in Callers :
    /\ calls[p].op = "build" /\ calls[p].n = nbuilds
    /\ calls[p].pc = "done" /\ calls[p].exc = CancelInProgress
    /\ calls[q].op = "cancel" /\ calls[q].pc = "waiting"
    /\ building /\ _canceling /\ ~canceled

====
